---- MODULE Spec2Model ----
(***************************************************************************)
(* Model of the transcript/summary core of youtube-tldr-chapters:          *)
(*   - RetryPolicy        (utils/retry: retryOperation, retryWithCondition) *)
(*   - ResponseCache      (services/cache.ts: CacheService, and its key)    *)
(*   - TranscriptAcquisition (YouTubeService.getTranscript, both versions)  *)
(*   - SummarizationEngine (LLMService: provider fallback, heuristic        *)
(*                          parsing, timestamp normalization)               *)
(*   - IdentifierResolver (routes: extractVideoId)                          *)
(*   - CaptionParser      (YouTubeService.parseTranscriptXML, and          *)
(*                          parseTranscriptContent on one content)         *)
(*   - caption track selection (selectBestCaptionTrack and the loops of     *)
(*                          the methods that select a track themselves)     *)
(*   - the entry point    (routes: the handler of GET /api/build)           *)
(* Each subsystem has its own next-state relation and specification; the    *)
(* variables of the other subsystems stay at their initial values.          *)
(***************************************************************************)
EXTENDS Integers, Sequences, FiniteSets, TLC

VARIABLES
    \* ---- RetryPolicy: one call of retryOperation / retryWithCondition ----
    rPc,            \* "idle" | "call" | "wait" | "returned" | "thrown"
    rFn,            \* which function is running
    rOpts,          \* the options record as passed by the caller
    rPred,          \* the shouldRetry predicate passed (retryWithCondition)
    rAttempt,       \* loop variable `attempt`
    rCurrentDelay,  \* local `currentDelay`
    rLastError,     \* local `lastError` (NoError while unassigned)
    rOutcome,       \* value returned or value thrown by the call
    rHistory,       \* history: what each invocation of `operation` did
    rWaits,         \* history: the delay given to each setTimeout
    \* ---- ResponseCache: one CacheService instance and the wall clock ----
    now,            \* Date.now(), in milliseconds
    cache,          \* the Map: key -> [data, expires]
    cResult,        \* what the last get returned
    cGetKey,        \* history: the key of the last get
    cGetAt,         \* history: Date.now() at the last get
    cSweeps,        \* how many times the setInterval callback has run
    cLastSet,       \* history: key of the last set and what it found there
    \* ---- cache key of two requests ----
    kPc,            \* "idle" | "done"
    kTripleA,       \* <<videoId, language, model>> of the first request
    kTripleB,       \* the same of the second request
    kKeyA,          \* generateCacheKey of the first
    kKeyB,          \* generateCacheKey of the second
    \* ---- TranscriptAcquisition: one call of YouTubeService.getTranscript ----
    tPc,            \* "idle" | "running" | "returned" | "thrown"
    tImpl,          \* the file whose YouTubeService is running
    tApiKeyValid,   \* whether the service holds a usable API key
    tVideoId,       \* the videoId argument
    tIndex,         \* position in the list of methods (loop variable i)
    tEndpoint,      \* position in the endpoint list of the unofficial method
    tResult,        \* the TranscriptResult returned, or the error thrown
    tInvoked,       \* history: the methods invoked, in order
    tOutcomes,      \* history: method, threw and text of every method run
    tLastOutput,    \* history: the whole value returned by the last method
    \* ---- LLMService.normalizeTimestamp applied once and once more ----
    nPc,            \* "idle" | "once" | "twice"
    nInput,         \* the timestamp argument
    nOnce,          \* normalizeTimestamp(nInput)
    nTwice,         \* normalizeTimestamp(nOnce)
    \* ---- LLMService.parseUnstructuredResponse: the loop over the lines ----
    pPc,            \* "idle" | "lines" | "done"
    pCount,         \* how many lines of the response have been read
    pTldr,          \* local `tldr`
    pChapters,      \* local `chapters`
    pFoundTldr,     \* local `foundTldr`
    pFoundChapters, \* local `foundChapters`
    pResult,        \* the LLMResult returned
    pExpected,      \* history: time and title of the timestamped lines read
                    \* after a summary line
    pAccepted,      \* history: the JSON document parseStructuredResponse
                    \* returned a result from
    \* ---- LLMService.generateTLDRAndChapters: one call ----
    gPc,            \* "idle" | "primary" | "secondary" | "returned" | "thrown"
    gModel,         \* the `model` argument
    gLanguage,      \* the `language` argument
    gGroqApiKey,    \* this.groqApiKey
    gTextLength,    \* length of the `transcriptText` argument
    gOutcome,       \* the LLMResult returned or the error thrown
    gCalls,         \* history: provider, model and failure of every provider call
    \* ---- extractVideoId and the test the route makes of its result ----
    uPc,            \* "idle" | "extracted" | "rejected" | "accepted"
    uUrl,           \* the url argument, as text
    uParts,         \* history: the host, path and query the url was written from
    uVideoId,       \* what extractVideoId returned
    \* ---- YouTubeService.parseTranscriptXML on the <text> elements of a page ----
    xPc,            \* "idle" | "parsed"
    xImpl,          \* the file whose YouTubeService is running
    xElements,      \* the <text> elements of the payload, in document order
    xResult,        \* the TranscriptResult returned (or that the call threw)
    \* ---- one content handed to a parser of YouTubeService by a method ----
    yPc,            \* "idle" | "parsed" | "ended"
    yImpl,          \* the file whose YouTubeService is running
    yMethod,        \* the method that fetched the content
    ySource,        \* the content: its kind, its items, its text
    yParsed,        \* what the parser returned (or that it threw)
    yOutput,        \* what the method returned (or that it threw)
    \* ---- the choice of a caption track by strategy 1 and by strategy 3 ----
    sPc,            \* "idle" | "structured" | "direct"
    sImpl,          \* the file whose YouTubeService is running
    sTracks,        \* the language codes of the tracks, in the order listed
    sPreferred,     \* the preferredLangs argument
    sStructured,    \* index of the track getTranscriptFromDataAPI selected
    sDirect,        \* index of the track getTranscriptFromTimedText selected
    \* ---- the /api/build handler, one request after the other ----
    qPc,            \* position of the handler in the request being served
    qImpl,          \* the file whose YouTubeService the handler builds
    qRequests,      \* how many requests have been answered or abandoned
    qNow,           \* Date.now(), in milliseconds
    qReq,           \* the query of the request: url, lang, model, nocache
    qVideoId,       \* local `videoId`
    qCache,         \* the Map of the handler's `cacheService`
    qCacheRead,     \* history: whether this request called cacheService.get
    qAttempt,       \* `attempt` of the retryOperation that is running
    qCurrentDelay,  \* `currentDelay` of the retryOperation that is running
    qWaits,         \* history: the retry waits of this request
    qCalls,         \* history: the operations this request invoked, in order
    qMetadata,      \* local `metadata`: whether a title is known
    qError,         \* the error caught by the catch block
    qPlanned,       \* the response the handler has built and is about to send
    qResponse,      \* what the caller received
    qLogFailed,     \* history: whether a write of the log record failed
    qPopulated,     \* history: key -> payload and expiry of the last response
                    \* stored by an earlier successful request
    qFreshAtArrival, \* history: an earlier request stored a response under
                    \* this request's key and its TTL has not elapsed
    qGroqApiKey,    \* GROQ_API_KEY of the process, read by every new LLMService
    qProviders,     \* history: the provider calls of this request, in order
    qTextLength     \* history: length of the text getTranscript returned
                    \* to this request (-1 before it returns)

retryVars == <<rPc, rFn, rOpts, rPred, rAttempt, rCurrentDelay, rLastError,
               rOutcome, rHistory, rWaits>>

cacheVars == <<now, cache, cResult, cGetKey, cGetAt, cSweeps, cLastSet>>

keyVars == <<kPc, kTripleA, kTripleB, kKeyA, kKeyB>>

transcriptVars == <<tPc, tImpl, tApiKeyValid, tVideoId, tIndex, tEndpoint, tResult,
                    tInvoked, tOutcomes, tLastOutput>>

timestampVars == <<nPc, nInput, nOnce, nTwice>>

parseVars == <<pPc, pCount, pTldr, pChapters, pFoundTldr, pFoundChapters, pResult, pExpected,
              pAccepted>>

providerVars == <<gPc, gModel, gLanguage, gGroqApiKey, gTextLength, gOutcome, gCalls>>

resolverVars == <<uPc, uUrl, uParts, uVideoId>>

captionVars == <<xPc, xImpl, xElements, xResult>>

contentVars == <<yPc, yImpl, yMethod, ySource, yParsed, yOutput>>

selectionVars == <<sPc, sImpl, sTracks, sPreferred, sStructured, sDirect>>

routeVars == <<qPc, qImpl, qRequests, qNow, qReq, qVideoId, qCache, qCacheRead, qAttempt,
               qCurrentDelay, qWaits, qCalls, qMetadata, qError, qPlanned, qResponse,
               qLogFailed, qPopulated, qFreshAtArrival, qGroqApiKey, qProviders,
               qTextLength>>

vars == <<retryVars, cacheVars, keyVars, transcriptVars, timestampVars,
          parseVars, providerVars, resolverVars, captionVars, contentVars,
          selectionVars, routeVars>>

notRetryVars == <<cacheVars, keyVars, transcriptVars, timestampVars,
                  parseVars, providerVars, resolverVars, captionVars,
                  contentVars, selectionVars, routeVars>>
notCacheVars == <<retryVars, keyVars, transcriptVars, timestampVars,
                  parseVars, providerVars, resolverVars, captionVars,
                  contentVars, selectionVars, routeVars>>
notKeyVars == <<retryVars, cacheVars, transcriptVars, timestampVars,
                parseVars, providerVars, resolverVars, captionVars,
                contentVars, selectionVars, routeVars>>
notTranscriptVars == <<retryVars, cacheVars, keyVars, timestampVars,
                       parseVars, providerVars, resolverVars, captionVars,
                       contentVars, selectionVars, routeVars>>
notTimestampVars == <<retryVars, cacheVars, keyVars, transcriptVars,
                      parseVars, providerVars, resolverVars, captionVars,
                      contentVars, selectionVars, routeVars>>
notParseVars == <<retryVars, cacheVars, keyVars, transcriptVars,
                  timestampVars, providerVars, resolverVars, captionVars,
                  contentVars, selectionVars, routeVars>>
notProviderVars == <<retryVars, cacheVars, keyVars, transcriptVars,
                     timestampVars, parseVars, resolverVars, captionVars,
                     contentVars, selectionVars, routeVars>>
notResolverVars == <<retryVars, cacheVars, keyVars, transcriptVars,
                     timestampVars, parseVars, providerVars, captionVars,
                     contentVars, selectionVars, routeVars>>
notCaptionVars == <<retryVars, cacheVars, keyVars, transcriptVars,
                    timestampVars, parseVars, providerVars, resolverVars,
                    contentVars, selectionVars, routeVars>>
notContentVars == <<retryVars, cacheVars, keyVars, transcriptVars,
                    timestampVars, parseVars, providerVars, resolverVars,
                    captionVars, selectionVars, routeVars>>
notSelectionVars == <<retryVars, cacheVars, keyVars, transcriptVars,
                      timestampVars, parseVars, providerVars, resolverVars,
                      captionVars, contentVars, routeVars>>
notRouteVars == <<retryVars, cacheVars, keyVars, transcriptVars,
                  timestampVars, parseVars, providerVars, resolverVars,
                  captionVars, contentVars, selectionVars>>

\* All sequences over `chars` of length at most n.
RECURSIVE StringsUpTo(_, _)
StringsUpTo(chars, n) ==
    IF n = 0 THEN {<<>>}
    ELSE LET shorter == StringsUpTo(chars, n - 1) IN
         shorter \cup {Append(s, c) : s \in shorter, c \in chars}

Min(a, b) == IF a <= b THEN a ELSE b

RECURSIVE Pow(_, _)
Pow(b, n) == IF n = 0 THEN 1 ELSE b * Pow(b, n - 1)

(***************************************************************************)
(* RetryPolicy                                                             *)
(***************************************************************************)
MaxRetriesBound == 2
MaxDelayUnit == 3

DefaultBackoffMultiplier == 2
DefaultMaxDelay == 30000
DefaultMaxRetries == 3

RetryCounts == 0..MaxRetriesBound
Delays == {1, 2, MaxDelayUnit + 2}
Multipliers == {1, 2, 3}
MaxDelays == {MaxDelayUnit, MaxDelayUnit + 5}

\* The options a caller may pass: maxRetries is mandatory for retryOperation,
\* backoffMultiplier and maxDelay are optional (RetryOptions).
RetryOptions ==
    { [maxRetries |-> m, delay |-> d] : m \in RetryCounts, d \in Delays }
    \cup { [maxRetries |-> m, delay |-> d, backoffMultiplier |-> b, maxDelay |-> x] :
             m \in RetryCounts, d \in Delays, b \in Multipliers, x \in MaxDelays }

\* retryWithCondition also accepts options without maxRetries.
ConditionOptions ==
    RetryOptions \cup { [delay |-> d, maxDelay |-> x] : d \in Delays, x \in MaxDelays }

OptMaxRetries(o) == IF "maxRetries" \in DOMAIN o THEN o.maxRetries ELSE DefaultMaxRetries
OptBackoffMultiplier(o) ==
    IF "backoffMultiplier" \in DOMAIN o THEN o.backoffMultiplier ELSE DefaultBackoffMultiplier
OptMaxDelay(o) == IF "maxDelay" \in DOMAIN o THEN o.maxDelay ELSE DefaultMaxDelay

\* Values an operation may raise: Error instances (with an identity) and a
\* value that is not an Error (a rejected string).
Throwables ==
    { [isError |-> TRUE,  type |-> "Error",     id |-> <<"op", 1>>, message |-> "network"],
      [isError |-> TRUE,  type |-> "TypeError", id |-> <<"op", 2>>, message |-> "bad input"],
      [isError |-> FALSE, type |-> "string",    id |-> <<"op", 3>>, message |-> "boom"] }

\* `lastError` before its first assignment.
NoError == [isError |-> FALSE, type |-> "undefined", id |-> <<"none", 0>>, message |-> ""]

NoOutcome == [kind |-> "none"]

\* new Error(String(error)): a fresh Error object whose message is the text
\* of the raised value.
WrapInError(e, attempt) ==
    [isError |-> TRUE, type |-> "Error", id |-> <<"wrapped", attempt>>, message |-> e.message]

NormalizeErrorAlwaysWrap(e, attempt) == WrapInError(e, attempt)

\* lastError = error instanceof Error ? error : new Error(String(error))
NormalizeError(e, attempt) == IF e.isError THEN e ELSE WrapInError(e, attempt)

\* The predicates a caller may pass as shouldRetry(error, attempt).
RetryPredicates == {"always", "never", "notTypeError", "firstAttemptOnly"}

ShouldRetry(p, err, attempt) ==
    CASE p = "always"           -> TRUE
      [] p = "never"            -> FALSE
      [] p = "notTypeError"     -> err.type # "TypeError"
      [] p = "firstAttemptOnly" -> attempt < 1

GivesUpOffByOne(fn, opts, pred, err, attempt) ==
    \/ attempt + 1 = OptMaxRetries(opts)
    \/ fn = "retryWithCondition" /\ ~ShouldRetry(pred, err, attempt)

GivesUpIgnoringPredicate(fn, opts, pred, err, attempt) ==
    attempt = OptMaxRetries(opts)

\* retryOperation:      if (attempt === maxRetries) throw lastError
\* retryWithCondition:  if (attempt === maxRetries || !shouldRetry(lastError, attempt))
GivesUp(fn, opts, pred, err, attempt) ==
    \/ attempt = OptMaxRetries(opts)
    \/ fn = "retryWithCondition" /\ ~ShouldRetry(pred, err, attempt)

\* currentDelay = Math.min(currentDelay * backoffMultiplier, maxDelay)
NextDelay(cur, opts) == Min(cur * OptBackoffMultiplier(opts), OptMaxDelay(opts))

InitRetry ==
    /\ rPc = "idle"
    /\ rFn = "none"
    /\ rOpts = [maxRetries |-> 0, delay |-> 1]
    /\ rPred = "none"
    /\ rAttempt = 0
    /\ rCurrentDelay = 0
    /\ rLastError = NoError
    /\ rOutcome = NoOutcome
    /\ rHistory = <<>>
    /\ rWaits = <<>>

\* Entry of retryOperation: destructure options, currentDelay = delay, attempt = 0.
RetryOperationCall ==
    /\ rPc = "idle"
    /\ \E o \in RetryOptions :
        /\ rOpts' = o
        /\ rCurrentDelay' = o.delay
    /\ rFn' = "retryOperation"
    /\ rPred' = "none"
    /\ rAttempt' = 0
    /\ rPc' = "call"
    /\ UNCHANGED <<rLastError, rOutcome, rHistory, rWaits>>
    /\ UNCHANGED notRetryVars

\* Entry of retryWithCondition.
RetryWithConditionCall ==
    /\ rPc = "idle"
    /\ \E o \in ConditionOptions :
        /\ rOpts' = o
        /\ rCurrentDelay' = o.delay
    /\ \E p \in RetryPredicates : rPred' = p
    /\ rFn' = "retryWithCondition"
    /\ rAttempt' = 0
    /\ rPc' = "call"
    /\ UNCHANGED <<rLastError, rOutcome, rHistory, rWaits>>
    /\ UNCHANGED notRetryVars

\* `return await operation()` when the operation fulfils.
OperationSucceeds ==
    /\ rPc = "call"
    /\ rHistory' = Append(rHistory, [ok |-> TRUE, attempt |-> rAttempt,
                                      raised |-> NoError, error |-> NoError])
    /\ rOutcome' = [kind |-> "value", attempt |-> rAttempt]
    /\ rPc' = "returned"
    /\ UNCHANGED <<rFn, rOpts, rPred, rAttempt, rCurrentDelay, rLastError, rWaits>>
    /\ UNCHANGED notRetryVars

\* The catch block when the operation rejects with e: either rethrow, or
\* start the timer with the current delay.
OperationFails ==
    /\ rPc = "call"
    /\ \E e \in Throwables :
        LET err == NormalizeError(e, rAttempt) IN
        /\ rHistory' = Append(rHistory, [ok |-> FALSE, attempt |-> rAttempt,
                                          raised |-> e, error |-> err])
        /\ rLastError' = err
        /\ IF GivesUp(rFn, rOpts, rPred, err, rAttempt)
           THEN /\ rPc' = "thrown"
                /\ rOutcome' = [kind |-> "error", error |-> err]
                /\ UNCHANGED rWaits
           ELSE /\ rPc' = "wait"
                /\ rWaits' = Append(rWaits, rCurrentDelay)
                /\ UNCHANGED rOutcome
    /\ UNCHANGED <<rFn, rOpts, rPred, rAttempt, rCurrentDelay>>
    /\ UNCHANGED notRetryVars

\* The timer fires: raise the delay for the next attempt, attempt++, and
\* test the loop condition; leaving the loop reaches `throw lastError!`.
RetryTimerFires ==
    /\ rPc = "wait"
    /\ rCurrentDelay' = NextDelay(rCurrentDelay, rOpts)
    /\ rAttempt' = rAttempt + 1
    /\ IF rAttempt + 1 <= OptMaxRetries(rOpts)
       THEN rPc' = "call" /\ UNCHANGED rOutcome
       ELSE rPc' = "thrown" /\ rOutcome' = [kind |-> "error", error |-> rLastError]
    /\ UNCHANGED <<rFn, rOpts, rPred, rLastError, rHistory, rWaits>>
    /\ UNCHANGED notRetryVars

NextRetry ==
    \/ RetryOperationCall
    \/ RetryWithConditionCall
    \/ OperationSucceeds
    \/ OperationFails
    \/ RetryTimerFires

(***************************************************************************)
(* ResponseCache (CacheService)                                            *)
(***************************************************************************)
MaxNow == 2000
MaxSweeps == 2
MsPerSecond == 1000

TickSteps == {500, 1000}
TtlSeconds == {0, 1}
Payloads == {"v1", "v2"}
CacheKeys == {"tldr:dQw4w9WgXcQ-en-gpt-5", "tldr:dQw4w9WgXcQ-ru-gpt-5"}

\* What get returned: null, or the stored data.
Absent == [found |-> FALSE, data |-> "null"]
Found(v) == [found |-> TRUE, data |-> v]

IsExpiredAtBoundary(t, entry) == t >= entry.expires

\* Date.now() > cached.expires
IsExpired(t, entry) == t > entry.expires

\* A set that leaves an entry already stored under the key as it is.
MapSetKeepsEntry(m, k, e) == [x \in DOMAIN m \cup {k} |-> IF x \in DOMAIN m THEN m[x] ELSE e]

\* Map.set / Map.delete
MapSet(m, k, e) == [x \in DOMAIN m \cup {k} |-> IF x = k THEN e ELSE m[x]]
\* A delete that takes every entry with it.
MapDeleteAll(m, k) == <<>>
MapDelete(m, k) == [x \in DOMAIN m \ {k} |-> m[x]]

\* What a set finds under its key: nothing, an unexpired entry, an expired one.
PriorEntry(m, k, t) ==
    IF k \notin DOMAIN m THEN "absent"
    ELSE IF IsExpired(t, m[k]) THEN "expired" ELSE "fresh"

InitCache ==
    /\ now = 0
    /\ cache = <<>>
    /\ cResult = [found |-> FALSE, data |-> "none"]
    /\ cGetKey = "none"
    /\ cGetAt = 0
    /\ cSweeps = 0
    /\ cLastSet = [key |-> "none", prior |-> "none"]

\* get(key)
CacheGet(k) ==
    /\ IF k \notin DOMAIN cache
       THEN cResult' = Absent /\ UNCHANGED cache
       ELSE IF IsExpired(now, cache[k])
            THEN cResult' = Absent /\ cache' = MapDelete(cache, k)
            ELSE cResult' = Found(cache[k].data) /\ UNCHANGED cache
    /\ cGetKey' = k
    /\ cGetAt' = now
    /\ UNCHANGED <<now, cSweeps, cLastSet>>
    /\ UNCHANGED notCacheVars

\* set(key, data, ttlSeconds)
CacheSet(k, v, ttl) ==
    /\ cache' = MapSet(cache, k, [data |-> v, expires |-> now + ttl * MsPerSecond])
    /\ cLastSet' = [key |-> k, prior |-> PriorEntry(cache, k, now)]
    /\ UNCHANGED <<now, cResult, cGetKey, cGetAt, cSweeps>>
    /\ UNCHANGED notCacheVars

\* delete(key)
CacheDelete(k) ==
    /\ k \in DOMAIN cache
    /\ cache' = MapDelete(cache, k)
    /\ UNCHANGED <<now, cResult, cGetKey, cGetAt, cSweeps, cLastSet>>
    /\ UNCHANGED notCacheVars

\* clear()
CacheClear ==
    /\ cache # <<>>
    /\ cache' = <<>>
    /\ UNCHANGED <<now, cResult, cGetKey, cGetAt, cSweeps, cLastSet>>
    /\ UNCHANGED notCacheVars

\* cleanup(): a public method; nothing in the program calls it.
CacheCleanup ==
    /\ \E k \in DOMAIN cache : IsExpired(now, cache[k])
    /\ cache' = [k \in {x \in DOMAIN cache : ~IsExpired(now, cache[x])} |-> cache[k]]
    /\ UNCHANGED <<now, cResult, cGetKey, cGetAt, cSweeps, cLastSet>>
    /\ UNCHANGED notCacheVars

\* The callback given to setInterval(..., 5 * 60 * 1000): its body holds only
\* comments. Timers run on their own clock, so the callback may run at any
\* reading of Date.now().
IntervalCallback ==
    /\ cSweeps < MaxSweeps
    /\ cSweeps' = cSweeps + 1
    /\ UNCHANGED <<now, cache, cResult, cGetKey, cGetAt, cLastSet>>
    /\ UNCHANGED notCacheVars

\* The wall clock advances.
Tick ==
    /\ \E d \in TickSteps :
        /\ now + d <= MaxNow
        /\ now' = now + d
    /\ UNCHANGED <<cache, cResult, cGetKey, cGetAt, cSweeps, cLastSet>>
    /\ UNCHANGED notCacheVars

NextCache ==
    \/ \E k \in CacheKeys : CacheGet(k)
    \/ \E k \in CacheKeys, v \in Payloads, ttl \in TtlSeconds : CacheSet(k, v, ttl)
    \/ \E k \in CacheKeys : CacheDelete(k)
    \/ CacheClear
    \/ CacheCleanup
    \/ IntervalCallback
    \/ Tick

(***************************************************************************)
(* ResponseCache: properties                                               *)
(***************************************************************************)
\* C8 as stated: get(key) returns the stored payload exactly when an entry is
\* present and now < expiresAt; otherwise it returns absent and no entry for
\* the key is left in the cache.
C8_GetFreshBeforeExpiry ==
    [][\A k \in CacheKeys :
          CacheGet(k) =>
              IF k \in DOMAIN cache /\ now < cache[k].expires
              THEN cResult' = Found(cache[k].data)
              ELSE cResult' = Absent /\ k \notin DOMAIN cache']_vars

\* C8 amended: get(key) returns the stored payload exactly when an entry is
\* present and now <= expiresAt (an entry is still served at the very
\* millisecond it expires) and then leaves the map as it is; otherwise it
\* returns absent and no entry for the key is left in the cache.
C8_GetFreshUntilExpiry ==
    [][\A k \in CacheKeys :
          CacheGet(k) =>
              IF k \in DOMAIN cache /\ now <= cache[k].expires
              THEN cResult' = Found(cache[k].data) /\ cache' = cache
              ELSE cResult' = Absent /\ k \notin DOMAIN cache']_vars

\* A get at the very millisecond of expiry has just returned the payload.
C8_Witness ==
    /\ cResult.found
    /\ cGetAt = now
    /\ now > 0
    /\ cGetKey \in DOMAIN cache
    /\ cache[cGetKey].expires = now
    /\ cache[cGetKey].data = cResult.data

\* C9 as stated: each run of the periodic sweep removes every expired entry,
\* whether or not its key is queried again.
C9_SweepRemovesExpired ==
    [][IntervalCallback => \A k \in DOMAIN cache' : ~(now' > cache'[k].expires)]_vars

\* C13: set(key, payload, ttlSeconds) overwrites unconditionally and as a
\* whole: afterwards the entry of the key is exactly the new payload with
\* expiresAt = now + ttl, whatever was stored under the key before (nothing,
\* a fresh entry or an expired one), and the entries of all other keys are
\* the ones that were there before.
C13_SetOverwrites ==
    [][\A k \in CacheKeys, v \in Payloads, ttl \in TtlSeconds :
          CacheSet(k, v, ttl) =>
              /\ DOMAIN cache' = DOMAIN cache \cup {k}
              /\ cache'[k] = [data |-> v, expires |-> now + ttl * MsPerSecond]
              /\ \A x \in DOMAIN cache \ {k} : cache'[x] = cache[x]]_vars

\* A set has just replaced a fresh entry holding the other payload with a
\* different expiry, and an entry under another key is still in the map.
C13_Witness ==
    /\ cLastSet.prior = "fresh"
    /\ cLastSet.key \in DOMAIN cache
    /\ cache[cLastSet.key] = [data |-> "v2", expires |-> now + MsPerSecond]
    /\ now > 0
    /\ \E x \in DOMAIN cache : x # cLastSet.key

(***************************************************************************)
(* Cache key (CacheService.generateCacheKey)                               *)
(***************************************************************************)
MaxPartLen == 2

KeyChars == {"a", "-"}

\* The video ids, languages and models of the requests: non-empty strings.
KeyParts == StringsUpTo(KeyChars, MaxPartLen) \ {<<>>}

\* `tldr:${videoId}-${language}-${model}`
GenerateCacheKey(videoId, language, model) ==
    <<"t", "l", "d", "r", ":">> \o videoId \o <<"-">> \o language \o <<"-">> \o model

InitKey ==
    /\ kPc = "idle"
    /\ kTripleA = <<<<>>, <<>>, <<>>>>
    /\ kTripleB = <<<<>>, <<>>, <<>>>>
    /\ kKeyA = <<>>
    /\ kKeyB = <<>>

\* Two requests compute their cache keys.
GenerateKeys ==
    /\ kPc = "idle"
    /\ \E a \in KeyParts \X KeyParts \X KeyParts, b \in KeyParts \X KeyParts \X KeyParts :
        /\ kTripleA' = a
        /\ kTripleB' = b
        /\ kKeyA' = GenerateCacheKey(a[1], a[2], a[3])
        /\ kKeyB' = GenerateCacheKey(b[1], b[2], b[3])
    /\ kPc' = "done"
    /\ UNCHANGED notKeyVars

NextKey == GenerateKeys

\* C10 as stated: two distinct (identifier, language, model) triples never
\* yield the same key.
C10_KeyCollisionFree ==
    (kPc = "done" /\ kTripleA # kTripleB) => kKeyA # kKeyB

(***************************************************************************)
(* TranscriptAcquisition (YouTubeService.getTranscript and its methods)    *)
(* Two versions of the service are in the repository: the one in           *)
(* services/youtube.ts and the one in services/analytics.ts.               *)
(***************************************************************************)
MaxTextLen == 1
MaxSegments == 1
VideoIdLength == 11

Impls == {"analytics.ts", "youtube.ts"}

TextChars == {" ", "a"}
Whitespace == {" "}
Texts == StringsUpTo(TextChars, MaxTextLen)
\* The texts of the items of a caption payload, in payload order.
ItemLists == StringsUpTo(Texts, MaxSegments)

\* String.prototype.trim
RECURSIVE TrimLeft(_)
TrimLeft(t) == IF t # <<>> /\ Head(t) \in Whitespace THEN TrimLeft(Tail(t)) ELSE t
RECURSIVE TrimRight(_)
TrimRight(t) ==
    IF t # <<>> /\ t[Len(t)] \in Whitespace THEN TrimRight(SubSeq(t, 1, Len(t) - 1)) ELSE t
Trim(t) == TrimRight(TrimLeft(t))

\* items.map(x => x.text || '').join(' ')
RECURSIVE JoinTexts(_)
JoinTexts(items) ==
    IF items = <<>> THEN <<>>
    ELSE IF Len(items) = 1 THEN items[1]
    ELSE items[1] \o <<" ">> \o JoinTexts(Tail(items))

\* The segment list built from the items (times are left out of the model).
ToSegments(items) == [i \in 1..Len(items) |-> [text |-> items[i]]]

\* What a method does: throw, or return a TranscriptResult.
Threw == [threw |-> TRUE, text |-> <<>>, segments |-> <<>>]
Returned(t, segs) == [threw |-> FALSE, text |-> t, segments |-> segs]

\* What the network gives a method: a failure (timeout, non-2xx, no caption
\* track, unparsable page), or the content of the selected caption track.
NetworkFailure == [ok |-> FALSE, kind |-> "none", items |-> <<>>, text |-> <<>>]
\* The source text of a JSON document that is not an array.
JsonSource == <<"{", "}">>
Contents ==
    {[ok |-> TRUE, kind |-> k, items |-> s, text |-> <<>>] :
        k \in {"xml", "jsonArray"}, s \in ItemLists}
    \cup {[ok |-> TRUE, kind |-> "jsonObject", items |-> s, text |-> t] :
            s \in ItemLists, t \in Texts}
    \cup {[ok |-> TRUE, kind |-> "plain", items |-> <<>>, text |-> t] : t \in Texts}
\* The <text> elements the pattern of parseTranscriptXML finds in a page.
XmlContents == {c \in Contents : c.kind = "xml"}
\* What an unofficial endpoint answers: {transcript|segments: [...], text}.
EndpointPayloads ==
    {[ok |-> TRUE, hasSegments |-> b, items |-> s, text |-> t] :
        b \in BOOLEAN, s \in ItemLists, t \in Texts}
EndpointFailure == [ok |-> FALSE, hasSegments |-> FALSE, items |-> <<>>, text |-> <<>>]

\* parseTranscriptXML: no element is an error in analytics.ts and an empty
\* result in youtube.ts.
ParseTranscriptXML(impl, items) ==
    IF items = <<>>
    THEN IF impl = "analytics.ts" THEN Threw ELSE Returned(<<>>, <<>>)
    ELSE Returned(Trim(JoinTexts(items)), ToSegments(items))

\* parseTranscriptContent (with parseTranscriptJSON in analytics.ts)
ParseTranscriptContent(impl, c) ==
    CASE c.kind = "xml" -> ParseTranscriptXML(impl, c.items)
      [] c.kind = "jsonArray" -> Returned(Trim(JoinTexts(c.items)), ToSegments(c.items))
      [] c.kind = "jsonObject" ->
            IF impl = "analytics.ts" /\ c.text # <<>>
            THEN Returned(c.text, ToSegments(c.items))
            ELSE Returned(JsonSource, <<>>)
      [] c.kind = "plain" ->
            IF impl = "analytics.ts" /\ Trim(c.text) = <<>>
            THEN Threw
            ELSE Returned(Trim(c.text), <<>>)

\* getTranscriptFromDataAPI
TranscriptFromDataAPI(impl, keyValid, raw) ==
    IF ~keyValid \/ ~raw.ok THEN Threw
    ELSE LET r == ParseTranscriptContent(impl, raw) IN
         IF impl = "analytics.ts" /\ (r.threw \/ Trim(r.text) = <<>>) THEN Threw ELSE r

\* getTranscriptFromTimedText
TranscriptFromTimedText(impl, raw) ==
    IF ~raw.ok THEN Threw
    ELSE LET r == ParseTranscriptXML(impl, raw.items) IN
         IF impl = "analytics.ts" /\ (r.threw \/ Trim(r.text) = <<>>) THEN Threw ELSE r

\* The endpoint lists of getTranscriptFromUnofficial.
EndpointCount(impl) == IF impl = "analytics.ts" THEN 3 ELSE 2

\* One iteration of the endpoint loop of getTranscriptFromUnofficial:
\* [done |-> TRUE, out] when the method returns, done = FALSE on `continue`.
UnofficialEndpoint(impl, p) ==
    LET goOn == [done |-> FALSE, out |-> Threw] IN
    IF ~p.ok THEN goOn
    ELSE IF impl = "analytics.ts"
    THEN IF p.hasSegments \/ p.text # <<>>
         THEN LET items == IF p.hasSegments THEN p.items ELSE <<>>
                  text == IF p.text # <<>> THEN p.text ELSE JoinTexts(items)
              IN IF Trim(text) # <<>>
                 THEN [done |-> TRUE, out |-> Returned(Trim(text), ToSegments(items))]
                 ELSE goOn
         ELSE goOn
    ELSE IF p.hasSegments
         THEN [done |-> TRUE, out |-> Returned(Trim(JoinTexts(p.items)), ToSegments(p.items))]
         ELSE goOn

\* The character class [a-zA-Z0-9_-].
ValidIdChars ==
    {"a", "b", "c", "d", "e", "f", "g", "h", "i", "j", "k", "l", "m",
     "n", "o", "p", "q", "r", "s", "t", "u", "v", "w", "x", "y", "z",
     "A", "B", "C", "D", "E", "F", "G", "H", "I", "J", "K", "L", "M",
     "N", "O", "P", "Q", "R", "S", "T", "U", "V", "W", "X", "Y", "Z",
     "0", "1", "2", "3", "4", "5", "6", "7", "8", "9", "_", "-"}

\* isValidVideoId: videoId.length === 11 && /^[a-zA-Z0-9_-]+$/.test(videoId)
IsValidVideoId(id) ==
    /\ Len(id) = VideoIdLength
    /\ \A i \in 1..Len(id) : id[i] \in ValidIdChars

\* Whether getTranscript checks the id before its first method: analytics.ts
\* does (line 178), youtube.ts has no check.
ValidatesVideoId(impl) == impl = "analytics.ts"

\* The ids a caller may pass: extractVideoId yields any path or query value.
Repeat(c, n) == [i \in 1..n |-> c]
SampleIdChars == {"a", "Z", "0", "_", "-", "!", " "}
IdLengths == {0, VideoIdLength - 1, VideoIdLength, VideoIdLength + 1}
VideoIds ==
    {Repeat(c, n) : c \in SampleIdChars, n \in IdLengths}
    \cup { <<"d", "Q", "w", "4", "w", "9", "W", "g", "X", "c", "Q">>,
           <<"d", "Q", "w", "4", "w", "9", "W", "g", "X", "c", "!">> }

MethodsSwapped == <<"dataApi", "timedText", "unofficial">>

\* The order in which getTranscript tries its methods.
Methods == <<"dataApi", "unofficial", "timedText">>

\* analytics.ts: result.text && result.text.trim().length > 0
\* youtube.ts:   result.text
AcceptsResult(impl, text) ==
    IF impl = "analytics.ts" THEN text # <<>> /\ Trim(text) # <<>> ELSE text # <<>>

NoResult == [kind |-> "none", text |-> <<>>, segments |-> <<>>, reason |-> "undefined"]
ResultOf(out) ==
    [kind |-> "result", text |-> out.text, segments |-> out.segments, reason |-> "undefined"]
InvalidIdError ==
    [kind |-> "error", text |-> <<>>, segments |-> <<>>, reason |-> "Invalid YouTube video ID"]

ExhaustedThrows ==
    [kind |-> "error", text |-> <<>>, segments |-> <<>>, reason |-> "All methods failed"]

\* The value returned after the last method has failed.
ExhaustedResult ==
    [kind |-> "result", text |-> <<>>, segments |-> <<>>,
     reason |-> "no_transcript_available_all_methods_failed"]

InitTranscript ==
    /\ tPc = "idle"
    /\ tImpl = "none"
    /\ tApiKeyValid = FALSE
    /\ tVideoId = <<>>
    /\ tIndex = 1
    /\ tEndpoint = 1
    /\ tResult = NoResult
    /\ tInvoked = <<>>
    /\ tOutcomes = <<>>
    /\ tLastOutput = Threw

\* Entry of getTranscript, up to the first method.
GetTranscriptCall ==
    /\ tPc = "idle"
    /\ \E impl \in Impls, id \in VideoIds, keyValid \in BOOLEAN :
        /\ tImpl' = impl
        /\ tVideoId' = id
        /\ tApiKeyValid' = keyValid
        /\ IF ValidatesVideoId(impl) /\ ~IsValidVideoId(id)
           THEN tPc' = "thrown" /\ tResult' = InvalidIdError
           ELSE tPc' = "running" /\ UNCHANGED tResult
    /\ UNCHANGED <<tIndex, tEndpoint, tInvoked, tOutcomes, tLastOutput>>
    /\ UNCHANGED notTranscriptVars

\* The rest of one loop iteration of getTranscript once method m has ended
\* with `out`: return it, go on to the next method, or give up.
MethodEnded(m, out) ==
    /\ tOutcomes' = Append(tOutcomes, [method |-> m, threw |-> out.threw, text |-> out.text])
    /\ tLastOutput' = out
    /\ tEndpoint' = 1
    /\ IF ~out.threw /\ AcceptsResult(tImpl, out.text)
       THEN tPc' = "returned" /\ tResult' = ResultOf(out) /\ UNCHANGED tIndex
       ELSE IF tIndex < Len(Methods)
            THEN tPc' = "running" /\ tIndex' = tIndex + 1 /\ UNCHANGED tResult
            ELSE tPc' = "returned" /\ tResult' = ExhaustedResult /\ UNCHANGED tIndex

\* getTranscript runs getTranscriptFromDataAPI.
TryDataAPI ==
    /\ tPc = "running"
    /\ Methods[tIndex] = "dataApi"
    /\ tInvoked' = Append(tInvoked, "dataApi")
    /\ \E raw \in Contents \cup {NetworkFailure} :
        MethodEnded("dataApi", TranscriptFromDataAPI(tImpl, tApiKeyValid, raw))
    /\ UNCHANGED <<tImpl, tApiKeyValid, tVideoId>>
    /\ UNCHANGED notTranscriptVars

\* getTranscript runs getTranscriptFromUnofficial: one endpoint per step.
TryUnofficialEndpoint ==
    /\ tPc = "running"
    /\ Methods[tIndex] = "unofficial"
    /\ tInvoked' = IF tEndpoint = 1 THEN Append(tInvoked, "unofficial") ELSE tInvoked
    /\ \E p \in EndpointPayloads \cup {EndpointFailure} :
        LET step == UnofficialEndpoint(tImpl, p) IN
        IF step.done THEN MethodEnded("unofficial", step.out)
        ELSE IF tEndpoint < EndpointCount(tImpl)
             THEN /\ tEndpoint' = tEndpoint + 1
                  /\ UNCHANGED <<tPc, tIndex, tResult, tOutcomes, tLastOutput>>
             ELSE MethodEnded("unofficial", Threw)
    /\ UNCHANGED <<tImpl, tApiKeyValid, tVideoId>>
    /\ UNCHANGED notTranscriptVars

\* getTranscript runs getTranscriptFromTimedText.
TryTimedText ==
    /\ tPc = "running"
    /\ Methods[tIndex] = "timedText"
    /\ tInvoked' = Append(tInvoked, "timedText")
    /\ \E raw \in XmlContents \cup {NetworkFailure} :
        MethodEnded("timedText", TranscriptFromTimedText(tImpl, raw))
    /\ UNCHANGED <<tImpl, tApiKeyValid, tVideoId>>
    /\ UNCHANGED notTranscriptVars

NextTranscript ==
    \/ GetTranscriptCall
    \/ TryDataAPI
    \/ TryUnofficialEndpoint
    \/ TryTimedText

(***************************************************************************)
(* TranscriptAcquisition: properties                                       *)
(***************************************************************************)
StrategyOrder == <<"structured-captions", "unofficial-service", "direct-extraction">>
StrategyOf(m) ==
    CASE m = "dataApi" -> "structured-captions"
      [] m = "unofficial" -> "unofficial-service"
      [] m = "timedText" -> "direct-extraction"

GaveText(o) == ~o.threw /\ o.text # <<>>

\* C1: the strategies are invoked one after another in the order
\* structured-captions, unofficial-service, direct-extraction; the call returns
\* the output of the first one that returns non-empty text, and nothing is
\* invoked after it.
C1_StrategyOrder ==
    /\ Len(tInvoked) <= Len(StrategyOrder)
    /\ \A i \in 1..Len(tInvoked) : StrategyOf(tInvoked[i]) = StrategyOrder[i]
    /\ Len(tOutcomes) <= Len(tInvoked)
    /\ \A i \in 1..Len(tOutcomes) :
        /\ tOutcomes[i].method = tInvoked[i]
        /\ GaveText(tOutcomes[i]) =>
              /\ i = Len(tOutcomes)
              /\ i = Len(tInvoked)
              /\ tPc = "returned"
              /\ tResult.kind = "result"
              /\ tResult.text = tLastOutput.text
              /\ tResult.segments = tLastOutput.segments
              /\ tLastOutput.text = tOutcomes[i].text
    /\ (tPc = "returned" /\ tResult.text # <<>>) =>
          (tOutcomes # <<>> /\ GaveText(tOutcomes[Len(tOutcomes)]))

\* Strategy 1 failed, strategy 2 returned text: the call returned that text
\* and strategy 3 was not invoked.
C1_Witness ==
    /\ tPc = "returned"
    /\ Len(tOutcomes) = 2
    /\ ~GaveText(tOutcomes[1])
    /\ GaveText(tOutcomes[2])
    /\ tResult.text = tOutcomes[2].text
    /\ tInvoked = <<"dataApi", "unofficial">>

\* C2: when every strategy has thrown (a timeout is a throw) or returned empty
\* text, the call returns a result with empty text, no segment and the reason
\* that all methods failed; it does not throw.
C2_ExhaustionIsAResult ==
    (Len(tOutcomes) = Len(StrategyOrder) /\ \A i \in 1..Len(tOutcomes) : ~GaveText(tOutcomes[i])) =>
        /\ tPc = "returned"
        /\ tResult = [kind |-> "result", text |-> <<>>, segments |-> <<>>,
                      reason |-> "no_transcript_available_all_methods_failed"]

\* All three strategies have failed, one of them by returning empty text.
C2_Witness ==
    /\ tPc = "returned"
    /\ Len(tOutcomes) = Len(StrategyOrder)
    /\ \A i \in 1..Len(tOutcomes) : ~GaveText(tOutcomes[i])
    /\ \E i \in 1..Len(tOutcomes) : ~tOutcomes[i].threw
    /\ tResult.text = <<>>

\* C3 as stated: an identifier that is not 11 characters of [a-zA-Z0-9_-]
\* makes the call fail with the invalid-identifier error before any strategy
\* is invoked.
C3_InvalidIdRejected ==
    (tPc # "idle" /\ ~IsValidVideoId(tVideoId)) =>
        /\ tPc = "thrown"
        /\ tResult.kind = "error"
        /\ tResult.reason = "Invalid YouTube video ID"
        /\ tInvoked = <<>>

(***************************************************************************)
(* SummarizationEngine: timestamp normalization (LLMService)                *)
(***************************************************************************)
MaxTsLen == 5
ExponentialFrom == 22

Digits == <<"0", "1", "2", "3", "4", "5", "6", "7", "8", "9">>
DigitChars == {Digits[i] : i \in 1..10}
TsChars == {"0", "2", "5", ":", "-", "a"}

\* The decimal digits of a natural number.
RECURSIVE DecimalOf(_)
DecimalOf(n) == IF n < 10 THEN <<Digits[n + 1]>> ELSE Append(DecimalOf(n \div 10), Digits[(n % 10) + 1])

\* A one followed by n zeros.
OneAndZeros(n) == <<"1">> \o [i \in 1..n |-> "0"]

\* Timestamps: every short string over TsChars, and two-part strings whose
\* first part is a power of ten with about twenty digits.
TimestampInputs ==
    StringsUpTo(TsChars, MaxTsLen)
    \cup {OneAndZeros(n) \o <<":", "0", "0">> : n \in {ExponentialFrom - 2, ExponentialFrom - 1}}

\* String.prototype.split(sep) for a one-character separator.
RECURSIVE Split(_, _)
Split(s, sep) ==
    IF \A i \in 1..Len(s) : s[i] # sep THEN <<s>>
    ELSE LET i == CHOOSE j \in 1..Len(s) : s[j] = sep /\ \A h \in 1..(j - 1) : s[h] # sep
         IN <<SubSeq(s, 1, i - 1)>> \o Split(SubSeq(s, i + 1, Len(s)), sep)

\* The longest prefix of s made of decimal digits.
RECURSIVE DigitPrefix(_)
DigitPrefix(s) ==
    IF s # <<>> /\ Head(s) \in DigitChars THEN <<Head(s)>> \o DigitPrefix(Tail(s)) ELSE <<>>

RECURSIVE StripZeros(_)
StripZeros(d) == IF Len(d) > 1 /\ Head(d) = "0" THEN StripZeros(Tail(d)) ELSE d

\* parseInt(s) on a string without a 0x prefix: leading white space is
\* skipped, a sign is read, then the longest run of decimal digits; NaN when
\* there is none. The number is its sign and its digits without leading zeros.
ParseInt(s) ==
    LET t == TrimLeft(s)
        neg == t # <<>> /\ Head(t) = "-"
        u == IF t # <<>> /\ Head(t) \in {"-", "+"} THEN Tail(t) ELSE t
        d == DigitPrefix(u)
    IN IF d = <<>> THEN [nan |-> TRUE, neg |-> FALSE, digits |-> <<>>]
       ELSE [nan |-> FALSE, neg |-> neg, digits |-> StripZeros(d)]

\* Number.prototype.toString() of a parsed integer whose significant digits
\* number at most fifteen: decimal notation below 10^21, exponential notation
\* from there on; minus zero prints as "0".
NumberToString(n) ==
    IF n.nan THEN <<"N", "a", "N">>
    ELSE IF n.digits = <<"0">> THEN <<"0">>
    ELSE LET sign == IF n.neg THEN <<"-">> ELSE <<>>
             last == CHOOSE i \in 1..Len(n.digits) :
                        n.digits[i] # "0" /\ \A j \in (i + 1)..Len(n.digits) : n.digits[j] = "0"
             frac == SubSeq(n.digits, 2, last)
         IN IF Len(n.digits) < ExponentialFrom THEN sign \o n.digits
            ELSE sign \o <<Head(n.digits)>> \o (IF frac = <<>> THEN <<>> ELSE <<".">> \o frac)
                      \o <<"e", "+">> \o DecimalOf(Len(n.digits) - 1)

\* padStart(2, '0')
PadStart2(s) == IF Len(s) = 0 THEN <<"0", "0">> ELSE IF Len(s) = 1 THEN <<"0">> \o s ELSE s

\* parseInt(part).toString().padStart(2, '0')
PadPart(part) == PadStart2(NumberToString(ParseInt(part)))

\* normalizeTimestamp(timestamp)
NormalizeTimestamp(timestamp) ==
    LET parts == Split(timestamp, ":") IN
    IF Len(parts) = 2 THEN PadPart(parts[1]) \o <<":">> \o PadPart(parts[2])
    ELSE IF Len(parts) = 3
         THEN PadPart(parts[1]) \o <<":">> \o PadPart(parts[2]) \o <<":">> \o PadPart(parts[3])
         ELSE timestamp

InitTimestamp ==
    /\ nPc = "idle"
    /\ nInput = <<>>
    /\ nOnce = <<>>
    /\ nTwice = <<>>

\* normalizeTimestamp is applied to a timestamp.
NormalizeCall ==
    /\ nPc = "idle"
    /\ \E t \in TimestampInputs :
        /\ nInput' = t
        /\ nOnce' = NormalizeTimestamp(t)
    /\ nPc' = "once"
    /\ UNCHANGED nTwice
    /\ UNCHANGED notTimestampVars

\* normalizeTimestamp is applied to its own result.
NormalizeAgain ==
    /\ nPc = "once"
    /\ nTwice' = NormalizeTimestamp(nOnce)
    /\ nPc' = "twice"
    /\ UNCHANGED <<nInput, nOnce>>
    /\ UNCHANGED notTimestampVars

NextTimestamp ==
    \/ NormalizeCall
    \/ NormalizeAgain

(***************************************************************************)
(* SummarizationEngine: heuristic parsing of a response that is not JSON    *)
(* (LLMService.parseUnstructuredResponse)                                   *)
(***************************************************************************)
MaxLines == 3
SummaryMinLength == 50

UpperLetters == <<"A", "B", "C", "D", "E", "F", "G", "H", "I", "J", "K", "L", "M",
                  "N", "O", "P", "Q", "R", "S", "T", "U", "V", "W", "X", "Y", "Z",
                  "Í">>
LowerLetters == <<"a", "b", "c", "d", "e", "f", "g", "h", "i", "j", "k", "l", "m",
                  "n", "o", "p", "q", "r", "s", "t", "u", "v", "w", "x", "y", "z",
                  "í">>

\* toLowerCase()
ToLowerCase(s) ==
    [i \in 1..Len(s) |->
        IF \E j \in DOMAIN UpperLetters : UpperLetters[j] = s[i]
        THEN LowerLetters[CHOOSE j \in DOMAIN UpperLetters : UpperLetters[j] = s[i]]
        ELSE s[i]]

\* includes(sub)
Includes(s, sub) ==
    \E i \in 1..(Len(s) - Len(sub) + 1) : SubSeq(s, i, i + Len(sub) - 1) = sub

\* indexOf(c), counted from 1; 0 when c does not occur.
IndexOf(s, c) ==
    IF \E i \in 1..Len(s) : s[i] = c
    THEN CHOOSE i \in 1..Len(s) : s[i] = c /\ \A j \in 1..(i - 1) : s[j] # c
    ELSE 0

KwTldr == <<"t", "l", "d", "r">>
KwResumen == <<"r", "e", "s", "u", "m", "e", "n">>
KwChapters == <<"c", "h", "a", "p", "t", "e", "r", "s">>
KwCapitulos == <<"c", "a", "p", "í", "t", "u", "l", "o", "s">>

\* The lines a response may hold (before they are trimmed): a head, a
\* separator and a tail, each of which may be missing.
LineHeads ==
    { <<>>,
      <<"R", "e", "s", "u", "m", "e", "n">>,
      <<"C", "h", "a", "p", "t", "e", "r", "s">>,
      <<"C", "a", "p", "í", "t", "u", "l", "o", "s">>,
      <<"0", "2", ":", "3", "0">>,
      <<"2", ":", "0", "5">>,
      [i \in 1..(SummaryMinLength + 1) |-> "y"] }

LineSeparators == {<<>>, <<" ">>, <<":">>, <<":", " ">>, <<" ", "-", " ">>}

LineTails ==
    { <<>>,
      <<"V", "i", "d", "e", "o", " ", "a", "b", "o", "u", "t", " ", "X">>,
      <<"M", "a", "i", "n", " ", "t", "o", "p", "i", "c">>,
      <<"1", ":", "0", "2", ":", "0", "3">> }

ResponseLines == {h \o p \o t : h \in LineHeads, p \in LineSeparators, t \in LineTails}

IsDigitAt(s, i) == i >= 1 /\ i <= Len(s) /\ s[i] \in DigitChars
IsColonAt(s, i) == i >= 1 /\ i <= Len(s) /\ s[i] = ":"

\* Length of the match of \d{1,2}:\d{2}(?::\d{2})? that starts at i; 0 if none.
TimeMatchLength(s, i) ==
    LET base == IF IsDigitAt(s, i) /\ IsDigitAt(s, i + 1) /\ IsColonAt(s, i + 2)
                   /\ IsDigitAt(s, i + 3) /\ IsDigitAt(s, i + 4) THEN 5
                ELSE IF IsDigitAt(s, i) /\ IsColonAt(s, i + 1)
                        /\ IsDigitAt(s, i + 2) /\ IsDigitAt(s, i + 3) THEN 4
                ELSE 0
    IN IF base = 0 THEN 0
       ELSE IF IsColonAt(s, i + base) /\ IsDigitAt(s, i + base + 1)
               /\ IsDigitAt(s, i + base + 2) THEN base + 3
       ELSE base

\* line.match(/(\d{1,2}:\d{2}(?::\d{2})?)/): position of the leftmost match,
\* 0 when there is none.
TimeMatchIndex(s) ==
    IF \E i \in 1..Len(s) : TimeMatchLength(s, i) > 0
    THEN CHOOSE i \in 1..Len(s) :
            TimeMatchLength(s, i) > 0 /\ \A j \in 1..(i - 1) : TimeMatchLength(s, j) = 0
    ELSE 0

\* timeMatch[1]
TimeMatched(s) ==
    LET i == TimeMatchIndex(s) IN SubSeq(s, i, i + TimeMatchLength(s, i) - 1)

\* replace(/^[\s\-:]+/, '')
RECURSIVE StripLeadingSeparators(_)
StripLeadingSeparators(s) ==
    IF s # <<>> /\ Head(s) \in Whitespace \cup {"-", ":"}
    THEN StripLeadingSeparators(Tail(s)) ELSE s

\* line.replace(timeMatch[0], '').replace(/^[\s\-:]+/, '').trim()
ChapterTitle(s) ==
    LET i == TimeMatchIndex(s)
        n == TimeMatchLength(s, i)
    IN Trim(StripLeadingSeparators(SubSeq(s, 1, i - 1) \o SubSeq(s, i + n, Len(s))))

IsSummaryLine(line) ==
    Includes(ToLowerCase(line), KwTldr) \/ Includes(ToLowerCase(line), KwResumen)

\* The header test of line 317.
IsChaptersLine(line) ==
    Includes(ToLowerCase(line), KwChapters) \/ Includes(ToLowerCase(line), KwCapitulos)

NoSummary == <<"N", "o", " ", "s", "u", "m", "m", "a", "r", "y", " ", "a", "v", "a", "i", "l", "a", "b", "l", "e">>

\* ---- parseStructuredResponse ----
MaxChapters == 2

\* The values a field of the parsed document may hold.
JUndefined == [type |-> "undefined", str |-> <<>>]
JString(str) == [type |-> "string", str |-> str]
JNumber == [type |-> "number", str |-> <<"9", "0">>]

\* JavaScript truthiness of a field: undefined and '' are falsy, every other
\* string (a blank included) and a number other than 0 are truthy.
Truthy(v) == v.type = "number" \/ (v.type = "string" /\ v.str # <<>>)

TldrValues ==
    {JUndefined, JNumber, JString(<<>>), JString(<<" ">>), JString(<<"S">>), JString(<<" ", "S", " ">>)}
TimeValues ==
    {JUndefined, JNumber, JString(<<"5">>), JString(<<"1", ":", "0", "5">>), JString(<<"a", ":", "b">>),
     JString(<<"0", "1", ":", "0", "2", ":", "0", "3">>)}
TitleValues == {JUndefined, JNumber, JString(<<" ">>), JString(<<"A">>), JString(<<" ", "B">>)}
ChapterItems == [time : TimeValues, title : TitleValues]

\* What JSON.parse makes of the response text: it throws, or gives null, or
\* gives an object whose chapters field is an array of items or is not.
NotJson == [kind |-> "notJson", tldr |-> JUndefined, isArray |-> FALSE, chapters |-> <<>>]
JsonNull == [kind |-> "null", tldr |-> JUndefined, isArray |-> FALSE, chapters |-> <<>>]
NoDocument == [kind |-> "none", tldr |-> JUndefined, isArray |-> FALSE, chapters |-> <<>>]
JsonObjects ==
    {[kind |-> "object", tldr |-> t, isArray |-> TRUE, chapters |-> c] :
        t \in TldrValues, c \in StringsUpTo(ChapterItems, MaxChapters)}
    \cup {[kind |-> "object", tldr |-> t, isArray |-> FALSE, chapters |-> <<>>] :
            t \in TldrValues}
ProviderDocuments == {NotJson, JsonNull} \cup JsonObjects

\* .filter(ch => ch.time && ch.title)
KeptChapters(items) == SelectSeq(items, LAMBDA ch : Truthy(ch.time) /\ Truthy(ch.title))

\* Whether the try block of parseStructuredResponse throws: JSON.parse
\* throws, a property of null is read, the structure test of line 271
\* fails, or split / trim is called on a value that is not a string.
StructuredThrows(d) ==
    \/ d.kind # "object"
    \/ ~Truthy(d.tldr)
    \/ ~d.isArray
    \/ \E i \in 1..Len(d.chapters) :
          /\ Truthy(d.chapters[i].time) /\ Truthy(d.chapters[i].title)
          /\ (d.chapters[i].time.type # "string" \/ d.chapters[i].title.type # "string")
    \/ d.tldr.type # "string"

\* The value returned at line 283.
StructuredResult(d) ==
    LET kept == KeptChapters(d.chapters) IN
    [tldr |-> Trim(d.tldr.str),
     chapters |-> [i \in 1..Len(kept) |->
                    [time |-> NormalizeTimestamp(kept[i].time.str),
                     title |-> Trim(kept[i].title.str)]]]

InitParse ==
    /\ pPc = "idle"
    /\ pCount = 0
    /\ pTldr = <<>>
    /\ pChapters = <<>>
    /\ pFoundTldr = FALSE
    /\ pFoundChapters = FALSE
    /\ pResult = [tldr |-> <<>>, chapters |-> <<>>]
    /\ pExpected = <<>>
    /\ pAccepted = NoDocument

\* parseStructuredResponse is called with a response text: it returns the
\* result of the try block, or enters parseUnstructuredResponse from its
\* catch block.
ParseStructuredCall ==
    /\ pPc = "idle"
    /\ \E d \in ProviderDocuments :
        IF StructuredThrows(d)
        THEN /\ pPc' = "lines"
             /\ UNCHANGED <<pResult, pAccepted>>
        ELSE /\ pPc' = "done"
             /\ pResult' = StructuredResult(d)
             /\ pAccepted' = d
    /\ UNCHANGED <<pCount, pTldr, pChapters, pFoundTldr, pFoundChapters, pExpected>>
    /\ UNCHANGED notParseVars

\* parseUnstructuredResponse is entered: the locals of lines 299-303.
ParseUnstructuredStart ==
    /\ pPc = "idle"
    /\ pPc' = "lines"
    /\ UNCHANGED <<pCount, pTldr, pChapters, pFoundTldr, pFoundChapters, pResult, pExpected,
                   pAccepted>>
    /\ UNCHANGED notParseVars

\* What the loop body computes from one line alone: the trimmed line
\* (line 297), the keyword tests (307, 317), indexOf(':') (309), the text
\* after the colon (311), the timestamp match (323) and the chapter it
\* would push (325-331).
LineFacts(raw) ==
    LET line == Trim(raw)
        summary == IsSummaryLine(line)
        header == ~summary /\ IsChaptersLine(line)
        timed == ~summary /\ ~header /\ TimeMatchIndex(line) > 0
        colonIndex == IndexOf(line, ":")
    IN [line |-> line,
        summary |-> summary,
        header |-> header,
        timed |-> timed,
        colonIndex |-> colonIndex,
        afterColon |-> IF colonIndex > 0
                       THEN Trim(SubSeq(line, colonIndex + 1, Len(line))) ELSE <<>>,
        chapter |-> IF timed
                    THEN [time |-> NormalizeTimestamp(TimeMatched(line)),
                          title |-> ChapterTitle(line)]
                    ELSE [time |-> <<>>, title |-> <<>>]]

ResponseLineFacts == {LineFacts(raw) : raw \in ResponseLines}

\* One round of the loop over the lines; the response is read line by line.
\* Lines are trimmed, and empty ones are dropped before the loop (line 297).
ParseLine(f) ==
    /\ pPc = "lines"
    /\ pCount < MaxLines
    /\ pCount' = pCount + 1
    /\ IF f.line = <<>>
       THEN UNCHANGED <<pTldr, pChapters, pFoundTldr, pFoundChapters, pExpected>>
       ELSE
        /\ pTldr' = IF f.summary
                    THEN IF f.colonIndex > 0 THEN f.afterColon ELSE pTldr
                    ELSE IF ~f.header /\ ~pFoundTldr /\ ~pFoundChapters
                            /\ Len(f.line) > SummaryMinLength
                         THEN f.line
                         ELSE pTldr
        /\ pFoundTldr' = (pFoundTldr \/ f.summary
                          \/ (~f.header /\ ~pFoundChapters /\ Len(f.line) > SummaryMinLength))
        /\ pFoundChapters' = (pFoundChapters \/ f.header)
        /\ pChapters' = IF f.timed /\ pFoundChapters /\ f.chapter.title # <<>>
                        THEN Append(pChapters, f.chapter)
                        ELSE pChapters
        /\ pExpected' = IF f.timed /\ pFoundTldr /\ f.chapter.title # <<>>
                        THEN Append(pExpected, f.chapter)
                        ELSE pExpected
    /\ UNCHANGED <<pPc, pResult, pAccepted>>
    /\ UNCHANGED notParseVars

\* The lines are used up: return { tldr: tldr || 'No summary available', chapters }.
ParseUnstructuredReturn ==
    /\ pPc = "lines"
    /\ pPc' = "done"
    /\ pResult' = [tldr |-> IF pTldr = <<>> THEN NoSummary ELSE pTldr, chapters |-> pChapters]
    /\ UNCHANGED <<pCount, pTldr, pChapters, pFoundTldr, pFoundChapters, pExpected,
                   pAccepted>>
    /\ UNCHANGED notParseVars

NextParse ==
    \/ ParseStructuredCall
    \/ ParseUnstructuredStart
    \/ \E f \in ResponseLineFacts : ParseLine(f)
    \/ ParseUnstructuredReturn

(***************************************************************************)
(* SummarizationEngine: the two providers (LLMService.generateTLDRAndChapters) *)
(***************************************************************************)
Models == {"gpt-5", "gpt-4o", "llama3-8b-8192"}
Languages == {"ru", "en", "es"}
GroqApiKeys == {"", "gsk"}
GroqModel == "llama3-8b-8192"
MaxTranscriptLength == 8000
TranscriptLengths == {MaxTranscriptLength - 1, MaxTranscriptLength, MaxTranscriptLength + 1}

\* Length of truncatedText: the first maxLength characters and "..." when
\* the transcript is longer than maxLength.
TruncatedLength(n) == IF n > MaxTranscriptLength THEN MaxTranscriptLength + 3 ELSE n

\* What a provider call may meet: the request throws or times out, a status
\* that is not 2xx, a body without choices, an empty content, a content that
\* is the requested JSON, a content that is not.
ProviderResponses ==
    {"networkError", "httpError", "noChoices", "emptyContent", "jsonContent", "textContent",
     "jsonWithoutFields"}

\* A non-empty content that strict parsing rejects: text that is not JSON,
\* or a JSON document without the tldr / chapters fields.
MalformedContents == {"textContent", "jsonWithoutFields"}

\* A provider call that throws on every content but a well-formed document.
ProviderFailsUnlessWellFormed(resp) == resp # "jsonContent"

\* callOpenAI / callGroq throw on everything but a non-empty content.
ProviderFails(resp) == resp \notin {"jsonContent"} \cup MalformedContents

\* parseStructuredResponse: JSON.parse, and the heuristic parsing in its catch.
ParsedBy(resp) == IF resp = "jsonContent" THEN "structured" ELSE "heuristic"

\* A fallback that does not look at the key.
SecondaryConfiguredAlways(key) == TRUE

\* if (this.groqApiKey)
SecondaryConfigured(key) == key # ""

NoLLMOutcome == [kind |-> "none", provider |-> "none", parsed |-> "none", message |-> ""]
LLMReturned(provider, resp) ==
    [kind |-> "returned", provider |-> provider, parsed |-> ParsedBy(resp), message |-> ""]
AllProvidersFailed ==
    [kind |-> "thrown", provider |-> "none", parsed |-> "none",
     message |-> "All LLM providers failed"]

InitProvider ==
    /\ gPc = "idle"
    /\ gModel = "none"
    /\ gLanguage = "none"
    /\ gGroqApiKey = ""
    /\ gTextLength = 0
    /\ gOutcome = NoLLMOutcome
    /\ gCalls = <<>>

\* generateTLDRAndChapters(transcriptText, language, model) on a service
\* built with or without GROQ_API_KEY.
GenerateCall ==
    /\ gPc = "idle"
    /\ \E m \in Models, l \in Languages, k \in GroqApiKeys, n \in TranscriptLengths :
        /\ gModel' = m
        /\ gLanguage' = l
        /\ gGroqApiKey' = k
        /\ gTextLength' = n
    /\ gPc' = "primary"
    /\ UNCHANGED <<gOutcome, gCalls>>
    /\ UNCHANGED notProviderVars

\* try { return await this.callOpenAI(truncatedText, language, model) }
CallOpenAI ==
    /\ gPc = "primary"
    /\ \E resp \in ProviderResponses :
        /\ gCalls' = Append(gCalls, [provider |-> "openai", model |-> gModel,
                                     textLength |-> TruncatedLength(gTextLength),
                                     failed |-> ProviderFails(resp), response |-> resp])
        /\ IF ~ProviderFails(resp)
           THEN gPc' = "returned" /\ gOutcome' = LLMReturned("openai", resp)
           ELSE IF SecondaryConfigured(gGroqApiKey)
                THEN gPc' = "secondary" /\ UNCHANGED gOutcome
                ELSE gPc' = "thrown" /\ gOutcome' = AllProvidersFailed
    /\ UNCHANGED <<gModel, gLanguage, gGroqApiKey, gTextLength>>
    /\ UNCHANGED notProviderVars

\* try { return await this.callGroq(truncatedText, language) } and the throw
\* of line 126 after its catch.
CallGroq ==
    /\ gPc = "secondary"
    /\ \E resp \in ProviderResponses :
        /\ gCalls' = Append(gCalls, [provider |-> "groq", model |-> GroqModel,
                                     textLength |-> TruncatedLength(gTextLength),
                                     failed |-> ProviderFails(resp), response |-> resp])
        /\ IF ~ProviderFails(resp)
           THEN gPc' = "returned" /\ gOutcome' = LLMReturned("groq", resp)
           ELSE gPc' = "thrown" /\ gOutcome' = AllProvidersFailed
    /\ UNCHANGED <<gModel, gLanguage, gGroqApiKey, gTextLength>>
    /\ UNCHANGED notProviderVars

NextProvider ==
    \/ GenerateCall
    \/ CallOpenAI
    \/ CallGroq

(***************************************************************************)
(* IdentifierResolver (routes: extractVideoId and the test of its result)   *)
(***************************************************************************)
UrlSchemes == {<<>>, <<"h", "t", "t", "p", "s", ":", "/", "/">>}
UrlHosts ==
    { <<"y", "o", "u", "t", "u", ".", "b", "e">>, <<"y", "o", "u", "t", "u", "b", "e", ".", "c", "o", "m">>, <<"w", "w", "w", ".", "y", "o", "u", "t", "u", "b", "e", ".", "c", "o", "m">>, <<"n", "o", "t", "y", "o", "u", "t", "u", "b", "e", ".", "c", "o", "m">>, <<"v", "i", "m", "e", "o", ".", "c", "o", "m">> }
UrlPaths == {<<>>, <<"/">>, <<"/", "a", "b", "c">>, <<"/", "a", "b", "c", "/", "d", "e">>, <<"/", "w", "a", "t", "c", "h">>}
UrlQueries == {<<>>, <<"?", "v", "=", "a", "b", "c">>, <<"?", "v", "=">>, <<"?", "t", "=", "1">>, <<"?", "t", "=", "1", "&", "v", "=", "a", "b", "c">>}

SchemeHttps == <<"h", "t", "t", "p", "s", ":", "/", "/">>
HostShort == <<"y", "o", "u", "t", "u", ".", "b", "e">>
HostCanonical == <<"y", "o", "u", "t", "u", "b", "e", ".", "c", "o", "m">>

StartsWith(s, pre) == Len(s) >= Len(pre) /\ SubSeq(s, 1, Len(pre)) = pre

\* The text before the first character of `stops` (all of s when none occurs).
RECURSIVE UpTo(_, _)
UpTo(s, stops) ==
    IF s = <<>> \/ Head(s) \in stops THEN <<>> ELSE <<Head(s)>> \o UpTo(Tail(s), stops)

NullId == [isNull |-> TRUE, value |-> <<>>]
SomeId(v) == [isNull |-> FALSE, value |-> v]

\* new URL(url) for an https url without port, credentials or fragment: it
\* throws when the scheme is missing; hostname is the text up to the first
\* "/" or "?", pathname the text from there up to "?" ("/" when empty),
\* search the rest.
ParseUrl(url) ==
    IF ~StartsWith(url, SchemeHttps) \/ Len(url) = Len(SchemeHttps)
    THEN [ok |-> FALSE, hostname |-> <<>>, pathname |-> <<>>, search |-> <<>>]
    ELSE LET rest == SubSeq(url, Len(SchemeHttps) + 1, Len(url))
             host == UpTo(rest, {"/", "?"})
             afterHost == SubSeq(rest, Len(host) + 1, Len(rest))
             path == UpTo(afterHost, {"?"})
         IN [ok |-> host # <<>>,
             hostname |-> host,
             pathname |-> IF path = <<>> THEN <<"/">> ELSE path,
             search |-> SubSeq(afterHost, Len(path) + 1, Len(afterHost))]

\* searchParams.get(name): the value of the first pair with that name, null
\* when there is none.
RECURSIVE SearchParam(_, _)
SearchParam(pairs, name) ==
    IF pairs = <<>> THEN NullId
    ELSE LET pair == Head(pairs)
             key == UpTo(pair, {"="})
         IN IF key = name /\ pair # <<>>
            THEN SomeId(SubSeq(pair, Len(key) + 2, Len(pair)))
            ELSE SearchParam(Tail(pairs), name)

SearchParamsGet(search, name) ==
    IF search = <<>> THEN NullId
    ELSE SearchParam(Split(Tail(search), "&"), name)

\* urlObj.hostname.includes('youtube.com')
IsCanonicalHost(hostname) == Includes(hostname, HostCanonical)

\* extractVideoId(url)
ExtractVideoId(url) ==
    LET u == ParseUrl(url) IN
    IF ~u.ok THEN NullId
    ELSE IF u.hostname = HostShort THEN SomeId(Tail(u.pathname))
    ELSE IF IsCanonicalHost(u.hostname) THEN SearchParamsGet(u.search, <<"v">>)
    ELSE NullId

\* if (!videoId): null and the empty string are both falsy.
IsFalsyId(id) == id.isNull \/ id.value = <<>>

InitResolver ==
    /\ uPc = "idle"
    /\ uUrl = <<>>
    /\ uParts = [scheme |-> <<>>, host |-> <<>>, path |-> <<>>, query |-> <<>>]
    /\ uVideoId = NullId

\* const videoId = extractVideoId(params.url)
ExtractCall ==
    /\ uPc = "idle"
    /\ \E sc \in UrlSchemes, h \in UrlHosts, pa \in UrlPaths, q \in UrlQueries :
        /\ uParts' = [scheme |-> sc, host |-> h, path |-> pa, query |-> q]
        /\ uUrl' = sc \o h \o pa \o q
        /\ uVideoId' = ExtractVideoId(sc \o h \o pa \o q)
    /\ uPc' = "extracted"
    /\ UNCHANGED notResolverVars

\* if (!videoId) return res.status(400)...; otherwise the handler goes on.
CheckVideoId ==
    /\ uPc = "extracted"
    /\ uPc' = IF IsFalsyId(uVideoId) THEN "rejected" ELSE "accepted"
    /\ UNCHANGED <<uUrl, uParts, uVideoId>>
    /\ UNCHANGED notResolverVars

NextResolver ==
    \/ ExtractCall
    \/ CheckVideoId

(***************************************************************************)
(* CaptionParser: parseTranscriptXML and decodeXMLEntities, both versions   *)
(***************************************************************************)
MaxElements == 2

\* The values of the start and dur attributes, and the character data of an
\* element, as they stand in the payload.
StartAttributes == {<<>>, <<"0">>, <<"1", "2">>}
DurAttributes == {<<"5">>}
RawTexts ==
    { <<>>, <<"a">>, <<" ", "a">>,
      <<"&", "a", "m", "p", ";">>, <<"&", "l", "t", ";">>, <<"&", "a", "m", "p", ";", "l", "t", ";">>, <<"&", "#", "6", "5", ";">>, <<"&", "#", "x", "4", "1", ";">>, <<"&", "a", "m", "p", ";", "#", "6", "5", ";">> }

TextElements ==
    {[start |-> a, dur |-> d, raw |-> t] :
        a \in StartAttributes, d \in DurAttributes, t \in RawTexts}

\* replace(/pat/g, rep) for a pattern that is a fixed text.
RECURSIVE ReplaceAll(_, _, _)
ReplaceAll(s, pat, rep) ==
    IF Len(s) < Len(pat) THEN s
    ELSE IF StartsWith(s, pat)
         THEN rep \o ReplaceAll(SubSeq(s, Len(pat) + 1, Len(s)), pat, rep)
         ELSE <<Head(s)>> \o ReplaceAll(Tail(s), pat, rep)

HexDigits == <<"0", "1", "2", "3", "4", "5", "6", "7", "8", "9", "A", "B", "C", "D", "E", "F">>
HexChars == {HexDigits[i] : i \in 1..16} \cup {"a", "b", "c", "d", "e", "f"}

RECURSIVE HexPrefix(_)
HexPrefix(s) == IF s # <<>> /\ Head(s) \in HexChars THEN <<Head(s)>> \o HexPrefix(Tail(s)) ELSE <<>>

\* parseInt(digits, base) of a non-empty run of digits.
RECURSIVE ValueOf(_, _)
ValueOf(d, base) ==
    IF d = <<>> THEN 0
    ELSE LET c == ToLowerCase(<<d[Len(d)]>>)[1]
             v == CHOOSE i \in 0..15 : ToLowerCase(<<HexDigits[i + 1]>>)[1] = c
         IN base * ValueOf(SubSeq(d, 1, Len(d) - 1), base) + v

\* String.fromCharCode on the codes the payloads of RawTexts refer to.
FromCharCode(n) == IF n = 65 THEN "A" ELSE IF n = 38 THEN "&" ELSE IF n = 60 THEN "<" ELSE "?"

\* replace(/&#x([0-9A-Fa-f]+);/g, ...) when hex, replace(/&#(\d+);/g, ...) otherwise.
RECURSIVE ReplaceCharRefs(_, _)
ReplaceCharRefs(s, hex) ==
    LET pre == IF hex THEN <<"&", "#", "x">> ELSE <<"&", "#">>
        rest == SubSeq(s, Len(pre) + 1, Len(s))
        d == IF hex THEN HexPrefix(rest) ELSE DigitPrefix(rest)
    IN IF s = <<>> THEN s
       ELSE IF StartsWith(s, pre) /\ d # <<>> /\ Len(rest) > Len(d) /\ rest[Len(d) + 1] = ";"
            THEN <<FromCharCode(ValueOf(d, IF hex THEN 16 ELSE 10))>>
                 \o ReplaceCharRefs(SubSeq(rest, Len(d) + 2, Len(rest)), hex)
            ELSE <<Head(s)>> \o ReplaceCharRefs(Tail(s), hex)

\* decodeXMLEntities(text): the seven replacements, one after the other.
DecodeXMLEntities(text) ==
    LET t1 == ReplaceAll(text, <<"&", "a", "m", "p", ";">>, <<"&">>)
        t2 == ReplaceAll(t1, <<"&", "l", "t", ";">>, <<"<">>)
        t3 == ReplaceAll(t2, <<"&", "g", "t", ";">>, <<">">>)
        t4 == ReplaceAll(t3, <<"&", "q", "u", "o", "t", ";">>, <<"\"">>)
        t5 == ReplaceAll(t4, <<"&", "#", "3", "9", ";">>, <<"'">>)
        t6 == ReplaceCharRefs(t5, TRUE)
    IN ReplaceCharRefs(t6, FALSE)

\* parseFloat of an attribute value written with digits only: NaN when it
\* is empty.
NaN == [nan |-> TRUE, value |-> 0]
ParseFloat(a) == IF DigitPrefix(a) = <<>> THEN NaN ELSE [nan |-> FALSE, value |-> ValueOf(DigitPrefix(a), 10)]
NumberSum(x, y) == IF x.nan \/ y.nan THEN NaN ELSE [nan |-> FALSE, value |-> x.value + y.value]

\* Whether the pattern of parseTranscriptXML matches an element written
\* <text start="..." dur="...">...</text>: start="([\d.]+)" in analytics.ts,
\* start="([^"]*)" in youtube.ts.
ElementMatches(impl, e) ==
    IF impl = "analytics.ts" THEN e.start # <<>> /\ e.dur # <<>> ELSE TRUE

\* segments.push({ start, end: start + duration, text })
SegmentOf(e) ==
    [start |-> ParseFloat(e.start),
     end |-> NumberSum(ParseFloat(e.start), ParseFloat(e.dur)),
     text |-> DecodeXMLEntities(e.raw)]

SegmentsOf(impl, elements) ==
    LET matched == SelectSeq(elements, LAMBDA e : ElementMatches(impl, e))
    IN [i \in 1..Len(matched) |-> SegmentOf(matched[i])]

\* parseTranscriptXML(xml)
ParseXmlElements(impl, elements) ==
    LET segments == SegmentsOf(impl, elements) IN
    IF segments = <<>>
    THEN IF impl = "analytics.ts" THEN Threw ELSE Returned(<<>>, <<>>)
    ELSE Returned(Trim(JoinTexts([i \in 1..Len(segments) |-> segments[i].text])), segments)

InitCaption ==
    /\ xPc = "idle"
    /\ xImpl = "none"
    /\ xElements = <<>>
    /\ xResult = Threw

ParseXmlCall ==
    /\ xPc = "idle"
    /\ \E impl \in Impls, es \in StringsUpTo(TextElements, MaxElements) :
        /\ xImpl' = impl
        /\ xElements' = es
        /\ xResult' = ParseXmlElements(impl, es)
    /\ xPc' = "parsed"
    /\ UNCHANGED notCaptionVars

NextCaption == ParseXmlCall

(***************************************************************************)
(* The parsers of YouTubeService on one content (parseTranscriptContent,    *)
(* parseTranscriptJSON, parseTranscriptXML, and the reading of an endpoint's *)
(* answer), and the method that returns the parser's result                 *)
(***************************************************************************)
\* What a parser is given: the kind of content, the texts of its items and
\* the text it carries as a whole.
NoSource == [kind |-> "none", items |-> <<>>, text |-> <<>>]
SourceOf(kind, items, text) == [kind |-> kind, items |-> items, text |-> text]

\* The result built by one iteration of the endpoint loop (Threw when the
\* iteration builds none).
EndpointParsed(impl, p) ==
    LET step == UnofficialEndpoint(impl, p) IN IF step.done THEN step.out ELSE Threw

\* The test a method of analytics.ts makes of the parser's result before
\* returning it (lines 285 and 460); youtube.ts returns it as it is.
MethodReturns(impl, method, parsed) ==
    IF impl = "analytics.ts" /\ method \in {"dataApi", "timedText"}
       /\ ~parsed.threw /\ Trim(parsed.text) = <<>>
    THEN Threw
    ELSE parsed

InitContent ==
    /\ yPc = "idle"
    /\ yImpl = "none"
    /\ yMethod = "none"
    /\ ySource = NoSource
    /\ yParsed = Threw
    /\ yOutput = Threw

\* getTranscriptFromDataAPI hands the downloaded caption to parseTranscriptContent.
ParseContentCall ==
    /\ yPc = "idle"
    /\ \E impl \in Impls, c \in Contents :
        /\ yImpl' = impl
        /\ ySource' = SourceOf(c.kind, c.items, c.text)
        /\ yParsed' = ParseTranscriptContent(impl, c)
    /\ yMethod' = "dataApi"
    /\ yPc' = "parsed"
    /\ UNCHANGED yOutput
    /\ UNCHANGED notContentVars

\* getTranscriptFromTimedText hands the fetched page to parseTranscriptXML.
ParseXmlPayload ==
    /\ yPc = "idle"
    /\ \E impl \in Impls, c \in XmlContents :
        /\ yImpl' = impl
        /\ ySource' = SourceOf(c.kind, c.items, c.text)
        /\ yParsed' = ParseTranscriptXML(impl, c.items)
    /\ yMethod' = "timedText"
    /\ yPc' = "parsed"
    /\ UNCHANGED yOutput
    /\ UNCHANGED notContentVars

\* getTranscriptFromUnofficial reads the answer of one endpoint.
ReadEndpointAnswer ==
    /\ yPc = "idle"
    /\ \E impl \in Impls, p \in EndpointPayloads :
        /\ yImpl' = impl
        /\ ySource' = SourceOf("endpoint", p.items, p.text)
        /\ yParsed' = EndpointParsed(impl, p)
    /\ yMethod' = "unofficial"
    /\ yPc' = "parsed"
    /\ UNCHANGED yOutput
    /\ UNCHANGED notContentVars

\* The method ends: it returns the result or throws.
MethodReturnsResult ==
    /\ yPc = "parsed"
    /\ yOutput' = MethodReturns(yImpl, yMethod, yParsed)
    /\ yPc' = "ended"
    /\ UNCHANGED <<yImpl, yMethod, ySource, yParsed>>
    /\ UNCHANGED notContentVars

NextContent ==
    \/ ParseContentCall
    \/ ParseXmlPayload
    \/ ReadEndpointAnswer
    \/ MethodReturnsResult

(***************************************************************************)
(* Caption track selection (getTranscriptFromDataAPI, selectBestCaptionTrack *)
(* and getTranscriptFromTimedText)                                          *)
(***************************************************************************)
MaxTracks == 3
MaxPreferred == 2

TrackLanguages == {<<"e", "n">>, <<"e", "n", "-", "U", "S">>, <<"f", "r">>, <<"e", "s", "-", "M", "X">>}
PreferredLanguages == {<<"e", "n">>, <<"f", "r">>, <<"e", "s">>}
\* Both methods throw before selecting when the list of tracks is empty.
TrackLists == StringsUpTo(TrackLanguages, MaxTracks) \ {<<>>}
PreferredLists == StringsUpTo(PreferredLanguages, MaxPreferred) \ {<<>>}

\* Array.prototype.find: the index of the first element that passes, 0 if none.
FindIndex(seq, Test(_)) ==
    IF \E i \in 1..Len(seq) : Test(seq[i])
    THEN CHOOSE i \in 1..Len(seq) : Test(seq[i]) /\ \A j \in 1..(i - 1) : ~Test(seq[j])
    ELSE 0

IsExactMatch(track, lang) == track = lang
\* caption.snippet.language.startsWith(lang + '-')
IsFamilyMatch(track, lang) == StartsWith(track, lang \o <<"-">>)

\* for (const lang of preferredLangs) { m = tracks.find(t => t === lang); ... }
RECURSIVE FirstExact(_, _)
FirstExact(tracks, langs) ==
    IF langs = <<>> THEN 0
    ELSE LET i == FindIndex(tracks, LAMBDA t : IsExactMatch(t, Head(langs))) IN
         IF i > 0 THEN i ELSE FirstExact(tracks, Tail(langs))

\* the same loop with the startsWith test
RECURSIVE FirstFamily(_, _)
FirstFamily(tracks, langs) ==
    IF langs = <<>> THEN 0
    ELSE LET i == FindIndex(tracks, LAMBDA t : IsFamilyMatch(t, Head(langs))) IN
         IF i > 0 THEN i ELSE FirstFamily(tracks, Tail(langs))

\* The exact-match loop followed by tracks[0].
SelectExactOrFirst(tracks, langs) ==
    LET exact == FirstExact(tracks, langs) IN
    IF exact > 0 THEN exact ELSE 1

\* selectBestCaptionTrack
SelectBestCaptionTrack(tracks, langs) ==
    LET exact == FirstExact(tracks, langs)
        family == FirstFamily(tracks, langs)
    IN IF exact > 0 THEN exact
       ELSE IF family > 0 THEN family
       ELSE LET any == FindIndex(tracks, LAMBDA t : t # <<>>) IN IF any > 0 THEN any ELSE 1

InitSelection ==
    /\ sPc = "idle"
    /\ sImpl = "none"
    /\ sTracks = <<>>
    /\ sPreferred = <<>>
    /\ sStructured = 0
    /\ sDirect = 0

\* getTranscriptFromDataAPI selects among the tracks the captions list names.
SelectStructured ==
    /\ sPc = "idle"
    /\ \E impl \in Impls, tracks \in TrackLists, langs \in PreferredLists :
        /\ sImpl' = impl
        /\ sTracks' = tracks
        /\ sPreferred' = langs
        /\ sStructured' = IF impl = "analytics.ts"
                          THEN SelectBestCaptionTrack(tracks, langs)
                          ELSE SelectExactOrFirst(tracks, langs)
    /\ sPc' = "structured"
    /\ UNCHANGED sDirect
    /\ UNCHANGED notSelectionVars

\* getTranscriptFromTimedText selects among the same tracks, as the player
\* response names them.
SelectDirect ==
    /\ sPc = "structured"
    /\ sDirect' = SelectExactOrFirst(sTracks, sPreferred)
    /\ sPc' = "direct"
    /\ UNCHANGED <<sImpl, sTracks, sPreferred, sStructured>>
    /\ UNCHANGED notSelectionVars

NextSelection ==
    \/ SelectStructured
    \/ SelectDirect

(***************************************************************************)
(* The entry point: the handler of GET /api/build (routes)                  *)
(***************************************************************************)
MaxRequests == 2
RouteTtlSeconds == 3600
MinTranscriptLength == 50

RouteUrls ==
    { <<"h", "t", "t", "p", "s", ":", "/", "/", "y", "o", "u", "t", "u", "b", "e", ".", "c", "o", "m", "/", "w", "a", "t", "c", "h", "?", "v", "=", "d", "Q", "w", "4", "w", "9", "W", "g", "X", "c", "Q">>,
      <<"h", "t", "t", "p", "s", ":", "/", "/", "y", "o", "u", "t", "u", ".", "b", "e", "/", "a", "b", "c">>,
      <<"h", "t", "t", "p", "s", ":", "/", "/", "v", "i", "m", "e", "o", ".", "c", "o", "m", "/", "a", "b", "c">>,
      <<"y", "o", "u", "t", "u", "b", "e">> }
RouteLanguages == {<<"r", "u">>, <<"e", "n">>}
RouteModel == <<"g", "p", "t", "-", "5">>
RouteRequests ==
    {[url |-> u, lang |-> l, model |-> RouteModel, nocache |-> n] :
        u \in RouteUrls, l \in RouteLanguages, n \in BOOLEAN}

\* Time between two requests: a second, or just over the TTL.
RequestGaps == {MsPerSecond, RouteTtlSeconds * MsPerSecond + 1}

TranscriptOptions == [maxRetries |-> 3, delay |-> 1000]
SummaryOptions == [maxRetries |-> 2, delay |-> 2000]

\* z.string().url() of youtubeRequestSchema
IsUrl(u) == ParseUrl(u).ok

NoResponse == [status |-> 0, kind |-> "none", cached |-> FALSE, data |-> <<>>]
InvalidUrlResponse == [status |-> 400, kind |-> "invalidUrl", cached |-> FALSE, data |-> <<>>]
NoTranscriptResponse == [status |-> 400, kind |-> "noTranscript", cached |-> FALSE, data |-> <<>>]
\* The response of line 108; its data stands for the fields computed by
\* this request (the key it belongs to and the time it was processed at).
SuccessResponse(key, t) == [status |-> 200, kind |-> "success", cached |-> FALSE, data |-> <<key, t>>]
\* { ...cachedResult, cached: true, ... }
CachedResponse(stored) == [stored EXCEPT !.cached = TRUE]
\* statusCode = error instanceof z.ZodError ? 400 : 500
ErrorResponse(err) ==
    IF err = "ZodError"
    THEN [status |-> 400, kind |-> "validation", cached |-> FALSE, data |-> <<>>]
    ELSE [status |-> 500, kind |-> "internal", cached |-> FALSE, data |-> <<>>]
\* What the framework does with a handler whose promise was rejected: no
\* answer at all, or its own error page.
AbandonedResponses ==
    {NoResponse, [status |-> 500, kind |-> "framework", cached |-> FALSE, data |-> <<>>]}

RouteKey == GenerateCacheKey(qVideoId, qReq.lang, qReq.model)

InitRoute ==
    /\ qPc = "idle"
    /\ qImpl = "none"
    /\ qRequests = 0
    /\ qNow = 0
    /\ qReq = [url |-> <<>>, lang |-> <<>>, model |-> <<>>, nocache |-> FALSE]
    /\ qVideoId = <<>>
    /\ qCache = <<>>
    /\ qCacheRead = FALSE
    /\ qAttempt = 0
    /\ qCurrentDelay = 0
    /\ qWaits = <<>>
    /\ qCalls = <<>>
    /\ qMetadata = FALSE
    /\ qError = "none"
    /\ qPlanned = NoResponse
    /\ qResponse = NoResponse
    /\ qLogFailed = FALSE
    /\ qPopulated = <<>>
    /\ qFreshAtArrival = FALSE
    /\ qGroqApiKey = ""
    /\ qProviders = <<>>
    /\ qTextLength = -1

TranscriptTextLengths == {0, MinTranscriptLength - 1, MinTranscriptLength}

\* A getTranscript that raises whatever it is given.
GetTranscriptThrowsAlways(impl, id) == TRUE

\* getTranscript throws for an id it rejects and for nothing else: every
\* method runs inside a try, and exhaustion is returned.
GetTranscriptThrows(impl, id) == ValidatesVideoId(impl) /\ ~IsValidVideoId(id)

\* A handler that takes every transcript for usable.
IsUsableTranscriptAlways(n) == TRUE

\* !transcript.text || transcript.text.length < 50 is the no-transcript case.
IsUsableTranscript(n) == n >= MinTranscriptLength

\* The provider calls of one generateTLDRAndChapters: callOpenAI, and
\* callGroq after its failure when a key is configured.
ProviderCallsOf(primaryOk, groqKey) ==
    IF primaryOk \/ ~SecondaryConfigured(groqKey) THEN <<"openai">> ELSE <<"openai", "groq">>

\* A handler that skips the cache on no request.
BypassesCacheNever(req) == FALSE

\* if (!req.query.nocache) guards the lookup.
BypassesCache(req) == req.nocache

\* Lines 14-42: the request is validated, the identifier is extracted and
\* the services of this request are built (new CacheService() has an empty Map).
RequestArrives ==
    /\ qPc = "idle"
    /\ qRequests < MaxRequests
    /\ \E r \in RouteRequests, impl \in (IF qImpl = "none" THEN Impls ELSE {qImpl}),
          groqKey \in (IF qImpl = "none" THEN GroqApiKeys ELSE {qGroqApiKey}) :
        LET vid == ExtractVideoId(r.url)
            key == GenerateCacheKey(vid.value, r.lang, r.model)
        IN
        /\ qReq' = r
        /\ qImpl' = impl
        /\ qGroqApiKey' = groqKey
        /\ IF ~IsUrl(r.url)
           THEN /\ qError' = "ZodError"
                /\ qPc' = "catch"
                /\ UNCHANGED <<qVideoId, qPlanned, qResponse, qFreshAtArrival>>
           ELSE IF IsFalsyId(vid)
           THEN /\ qPlanned' = InvalidUrlResponse
                /\ qResponse' = InvalidUrlResponse
                /\ qPc' = "responded"
                /\ UNCHANGED <<qVideoId, qError, qFreshAtArrival>>
           ELSE /\ qVideoId' = vid.value
                /\ qFreshAtArrival' = (key \in DOMAIN qPopulated /\ qNow < qPopulated[key].expires)
                /\ qPc' = "lookup"
                /\ UNCHANGED <<qError, qPlanned, qResponse>>
    /\ qCache' = <<>>
    /\ UNCHANGED <<qRequests, qNow, qCacheRead, qAttempt, qCurrentDelay, qWaits, qCalls,
                   qMetadata, qLogFailed, qPopulated, qProviders, qTextLength>>
    /\ UNCHANGED notRouteVars

\* Lines 44-64: cacheService.get(cacheKey) unless nocache is set.
CacheLookup ==
    /\ qPc = "lookup"
    /\ IF BypassesCache(qReq)
       THEN /\ qPc' = "metadata"
            /\ UNCHANGED <<qCache, qCacheRead, qPlanned>>
       ELSE /\ qCacheRead' = TRUE
            /\ IF RouteKey \notin DOMAIN qCache
               THEN qPc' = "metadata" /\ UNCHANGED <<qCache, qPlanned>>
               ELSE IF IsExpired(qNow, qCache[RouteKey])
               THEN /\ qCache' = MapDelete(qCache, RouteKey)
                    /\ qPc' = "metadata"
                    /\ UNCHANGED qPlanned
               ELSE /\ qPlanned' = CachedResponse(qCache[RouteKey].data)
                    /\ qPc' = "log"
                    /\ UNCHANGED qCache
    /\ UNCHANGED <<qImpl, qRequests, qNow, qReq, qVideoId, qAttempt, qCurrentDelay, qWaits,
                   qCalls, qMetadata, qError, qResponse, qLogFailed, qPopulated,
                   qFreshAtArrival, qGroqApiKey, qProviders, qTextLength>>
    /\ UNCHANGED notRouteVars

\* Lines 67-70: getVideoMetadata catches its own errors (it returns null), so
\* the retryOperation around it returns after one attempt.
GetMetadata ==
    /\ qPc = "metadata"
    /\ qCalls' = Append(qCalls, "metadata")
    /\ \E found \in BOOLEAN : qMetadata' = found
    /\ qAttempt' = 0
    /\ qCurrentDelay' = TranscriptOptions.delay
    /\ qPc' = "transcript"
    /\ UNCHANGED <<qImpl, qRequests, qNow, qReq, qVideoId, qCache, qCacheRead, qWaits,
                   qError, qPlanned, qResponse, qLogFailed, qPopulated, qFreshAtArrival,
                   qGroqApiKey, qProviders, qTextLength>>
    /\ UNCHANGED notRouteVars

\* Lines 73-100: one attempt of getTranscript inside retryOperation, and the
\* test of the text it returned. getTranscript throws only for an id it
\* rejects (analytics.ts); otherwise it returns a result, with or without text.
GetTranscriptAttempt ==
    /\ qPc = "transcript"
    /\ qCalls' = Append(qCalls, "transcript")
    /\ IF GetTranscriptThrows(qImpl, qVideoId)
       THEN IF GivesUp("retryOperation", TranscriptOptions, "always", NoError, qAttempt)
            THEN qError' = "Error" /\ qPc' = "catch"
                 /\ UNCHANGED <<qAttempt, qCurrentDelay, qPlanned, qTextLength>>
            ELSE qPc' = "transcriptWait"
                 /\ UNCHANGED <<qAttempt, qCurrentDelay, qPlanned, qError, qTextLength>>
       ELSE \E n \in TranscriptTextLengths :
              /\ qTextLength' = n
              /\ IF ~IsUsableTranscript(n)
                 THEN qPlanned' = NoTranscriptResponse /\ qPc' = "log"
                      /\ UNCHANGED <<qAttempt, qCurrentDelay, qError>>
                 ELSE qAttempt' = 0 /\ qCurrentDelay' = SummaryOptions.delay
                      /\ qPc' = "summary"
                      /\ UNCHANGED <<qPlanned, qError>>
    /\ UNCHANGED <<qImpl, qRequests, qNow, qReq, qVideoId, qCache, qCacheRead, qWaits,
                   qMetadata, qResponse, qLogFailed, qPopulated, qFreshAtArrival,
                   qGroqApiKey, qProviders>>
    /\ UNCHANGED notRouteVars

\* Lines 103-121: one attempt of generateTLDRAndChapters inside
\* retryOperation; on success the response is built and stored.
GenerateAttempt ==
    /\ qPc = "summary"
    /\ qCalls' = Append(qCalls, "summary")
    /\ \E primaryOk \in BOOLEAN, secondaryOk \in BOOLEAN :
        LET ok == primaryOk \/ (SecondaryConfigured(qGroqApiKey) /\ secondaryOk) IN
        /\ qProviders' = qProviders \o ProviderCallsOf(primaryOk, qGroqApiKey)
        /\ IF ok
           THEN LET response == SuccessResponse(RouteKey, qNow)
                    entry == [data |-> response,
                              expires |-> qNow + RouteTtlSeconds * MsPerSecond]
                IN /\ qCache' = MapSet(qCache, RouteKey, entry)
                   /\ qPopulated' = MapSet(qPopulated, RouteKey, entry)
                   /\ qPlanned' = response
                   /\ qPc' = "log"
                   /\ UNCHANGED qError
           ELSE /\ IF GivesUp("retryOperation", SummaryOptions, "always", NoError, qAttempt)
                   THEN qError' = "Error" /\ qPc' = "catch"
                   ELSE qPc' = "summaryWait" /\ UNCHANGED qError
                /\ UNCHANGED <<qCache, qPopulated, qPlanned>>
    /\ UNCHANGED <<qImpl, qRequests, qNow, qReq, qVideoId, qCacheRead, qAttempt,
                   qCurrentDelay, qWaits, qMetadata, qResponse, qLogFailed, qFreshAtArrival,
                   qGroqApiKey, qTextLength>>
    /\ UNCHANGED notRouteVars

\* The setTimeout of retryOperation fires and the loop goes round.
RouteRetryTimerFires ==
    /\ qPc \in {"transcriptWait", "summaryWait"}
    /\ qWaits' = Append(qWaits, qCurrentDelay)
    /\ qCurrentDelay' = NextDelay(qCurrentDelay,
                                  IF qPc = "transcriptWait" THEN TranscriptOptions
                                  ELSE SummaryOptions)
    /\ qAttempt' = qAttempt + 1
    /\ qPc' = IF qPc = "transcriptWait" THEN "transcript" ELSE "summary"
    /\ UNCHANGED <<qImpl, qRequests, qNow, qReq, qVideoId, qCache, qCacheRead, qCalls,
                   qMetadata, qError, qPlanned, qResponse, qLogFailed, qPopulated,
                   qFreshAtArrival, qGroqApiKey, qProviders, qTextLength>>
    /\ UNCHANGED notRouteVars

\* await analyticsService.logRequest(...) and the response after it (lines
\* 48-62, 88-99, 124-134): logRequest catches the failure of the sink.
LogRequestAndRespond ==
    /\ qPc = "log"
    /\ \E fails \in BOOLEAN : qLogFailed' = fails
    /\ qResponse' = qPlanned
    /\ qPc' = "responded"
    /\ UNCHANGED <<qImpl, qRequests, qNow, qReq, qVideoId, qCache, qCacheRead, qAttempt,
                   qCurrentDelay, qWaits, qCalls, qMetadata, qError, qPlanned, qPopulated,
                   qFreshAtArrival, qGroqApiKey, qProviders, qTextLength>>
    /\ UNCHANGED notRouteVars

\* The catch block (lines 136-158): storage.createApiLog is awaited with
\* nothing around it, so its failure rejects the handler's promise before
\* res.status(...).json(...) is reached.
CatchBlock ==
    /\ qPc = "catch"
    /\ qPlanned' = ErrorResponse(qError)
    /\ \E fails \in BOOLEAN :
        /\ qLogFailed' = fails
        /\ IF fails
           THEN qPc' = "abandoned" /\ \E a \in AbandonedResponses : qResponse' = a
           ELSE qPc' = "responded" /\ qResponse' = ErrorResponse(qError)
    /\ UNCHANGED <<qImpl, qRequests, qNow, qReq, qVideoId, qCache, qCacheRead, qAttempt,
                   qCurrentDelay, qWaits, qCalls, qMetadata, qError, qPopulated,
                   qFreshAtArrival, qGroqApiKey, qProviders, qTextLength>>
    /\ UNCHANGED notRouteVars

\* The request is over; some time later the next one may arrive.
NextRequest ==
    /\ qPc \in {"responded", "abandoned"}
    /\ qRequests + 1 < MaxRequests
    /\ qRequests' = qRequests + 1
    /\ \E gap \in RequestGaps : qNow' = qNow + gap
    /\ qPc' = "idle"
    /\ qReq' = [url |-> <<>>, lang |-> <<>>, model |-> <<>>, nocache |-> FALSE]
    /\ qVideoId' = <<>>
    /\ qCache' = <<>>
    /\ qCacheRead' = FALSE
    /\ qAttempt' = 0
    /\ qCurrentDelay' = 0
    /\ qWaits' = <<>>
    /\ qCalls' = <<>>
    /\ qMetadata' = FALSE
    /\ qError' = "none"
    /\ qPlanned' = NoResponse
    /\ qResponse' = NoResponse
    /\ qLogFailed' = FALSE
    /\ qFreshAtArrival' = FALSE
    /\ qProviders' = <<>>
    /\ qTextLength' = -1
    /\ UNCHANGED <<qImpl, qPopulated, qGroqApiKey>>
    /\ UNCHANGED notRouteVars

NextRoute ==
    \/ RequestArrives
    \/ CacheLookup
    \/ GetMetadata
    \/ GetTranscriptAttempt
    \/ GenerateAttempt
    \/ RouteRetryTimerFires
    \/ LogRequestAndRespond
    \/ CatchBlock
    \/ NextRequest

Init == InitRetry /\ InitCache /\ InitKey /\ InitTranscript /\ InitTimestamp
        /\ InitParse /\ InitProvider /\ InitResolver
        /\ InitCaption /\ InitContent /\ InitSelection /\ InitRoute

SpecRetry == Init /\ [][NextRetry]_vars

SpecCache == Init /\ [][NextCache]_vars

SpecKey == Init /\ [][NextKey]_vars

SpecTranscript == Init /\ [][NextTranscript]_vars

SpecTimestamp == Init /\ [][NextTimestamp]_vars

SpecParse == Init /\ [][NextParse]_vars

SpecProvider == Init /\ [][NextProvider]_vars

SpecResolver == Init /\ [][NextResolver]_vars

SpecCaption == Init /\ [][NextCaption]_vars

SpecContent == Init /\ [][NextContent]_vars

SpecSelection == Init /\ [][NextSelection]_vars

SpecRoute == Init /\ [][NextRoute]_vars

(***************************************************************************)
(* RetryPolicy: properties                                                 *)
(***************************************************************************)
LastAttempt == rHistory[Len(rHistory)]

\* C4: retryOperation invokes the operation at most maxRetries + 1 times; no
\* invocation follows the first success, whose value is the result; the error
\* is raised only after exactly maxRetries + 1 failed invocations.
C4_AttemptsBounded ==
    rFn = "retryOperation" =>
        /\ Len(rHistory) <= OptMaxRetries(rOpts) + 1
        /\ \A i \in 1..Len(rHistory) : rHistory[i].ok => i = Len(rHistory)
        /\ (rHistory # <<>> /\ LastAttempt.ok) =>
                /\ rPc = "returned"
                /\ rOutcome = [kind |-> "value", attempt |-> Len(rHistory) - 1]
        /\ rPc = "returned" => (rHistory # <<>> /\ LastAttempt.ok)
        /\ rPc = "thrown" =>
                /\ Len(rHistory) = OptMaxRetries(rOpts) + 1
                /\ \A i \in 1..Len(rHistory) : ~rHistory[i].ok
                /\ rOutcome.kind = "error"

\* The operation failed maxRetries (>= 1) times and succeeded on the last
\* allowed attempt.
C4_Witness ==
    /\ rFn = "retryOperation"
    /\ rPc = "returned"
    /\ OptMaxRetries(rOpts) >= 1
    /\ Len(rHistory) = OptMaxRetries(rOpts) + 1
    /\ \A i \in 1..OptMaxRetries(rOpts) : ~rHistory[i].ok

\* C5 as stated: the error raised when giving up is the very value the last
\* failed attempt raised, whatever kind of value that was.
C5_RaisesLastErrorUnchanged ==
    rPc = "thrown" => rOutcome.error = LastAttempt.raised

\* C5 amended: a raised Error instance is re-raised as it is (same object);
\* a raised value that is not an Error is replaced by a new Error whose
\* message is the text of that value.
C5_RaisesErrorOrWrapped ==
    rPc = "thrown" =>
        /\ rOutcome.kind = "error"
        /\ IF LastAttempt.raised.isError
           THEN rOutcome.error = LastAttempt.raised
           ELSE /\ rOutcome.error # LastAttempt.raised
                /\ rOutcome.error.isError
                /\ rOutcome.error.type = "Error"
                /\ rOutcome.error.message = LastAttempt.raised.message

\* Gave up after at least one retry, and the last attempt raised an Error.
C5_Witness ==
    /\ rPc = "thrown"
    /\ Len(rHistory) >= 2
    /\ LastAttempt.raised.isError
    /\ rOutcome.error = LastAttempt.raised

\* C6 as stated: the wait before the k-th retry of retryOperation is
\* min(initialDelay * backoffMultiplier^(k-1), maxDelay), so no wait exceeds
\* maxDelay.
C6_WaitsCapped ==
    rFn = "retryOperation" =>
        \A k \in 1..Len(rWaits) :
            /\ rWaits[k] = Min(rOpts.delay * Pow(OptBackoffMultiplier(rOpts), k - 1),
                               OptMaxDelay(rOpts))
            /\ rWaits[k] <= OptMaxDelay(rOpts)

\* C7: in retryWithCondition an error the predicate rejects ends the call at
\* once (that error raised, no wait, no further attempt); an error the
\* predicate accepts with attempts remaining is followed by the wait and then
\* by another attempt.
C7_ConditionDecidesRetry ==
    rFn = "retryWithCondition" =>
        \A i \in 1..Len(rHistory) :
            LET h == rHistory[i] IN
            ~h.ok =>
                IF ~ShouldRetry(rPred, h.error, h.attempt)
                THEN /\ i = Len(rHistory)
                     /\ rPc = "thrown"
                     /\ rOutcome = [kind |-> "error", error |-> h.error]
                     /\ Len(rWaits) = h.attempt
                ELSE h.attempt < OptMaxRetries(rOpts) =>
                     /\ Len(rWaits) >= h.attempt + 1
                     /\ \/ i = Len(rHistory) /\ rPc = "wait" /\ rAttempt = h.attempt
                        \/ i = Len(rHistory) /\ rPc = "call" /\ rAttempt = h.attempt + 1
                        \/ i < Len(rHistory) /\ rHistory[i + 1].attempt = h.attempt + 1

\* A retryable failure was retried, then a rejected error ended the call
\* while attempts remained.
C7_Witness ==
    /\ rFn = "retryWithCondition"
    /\ rPc = "thrown"
    /\ Len(rHistory) >= 2
    /\ rAttempt < OptMaxRetries(rOpts)
    /\ ~ShouldRetry(rPred, LastAttempt.error, LastAttempt.attempt)
    /\ Len(rWaits) = Len(rHistory) - 1

(***************************************************************************)
(* Properties of timestamp normalization                                    *)
(***************************************************************************)
IsDigitString(p) == p # <<>> /\ \A i \in 1..Len(p) : p[i] \in DigitChars

\* out is the number written by p, zero-padded to two digits.
IsPadded(out, p) ==
    /\ Len(out) >= 2
    /\ IsDigitString(out)
    /\ StripZeros(out) = StripZeros(p)
    /\ Len(out) > 2 => Head(out) # "0"

\* C16 as stated: normalizing a second time changes nothing, for every
\* timestamp; a two-part and a three-part timestamp come out with every
\* part parsed as an integer and zero-padded to two digits; a timestamp
\* with another number of parts comes out as it went in.
C16_NormalizeIdempotent ==
    /\ nPc = "twice" => nTwice = nOnce
    /\ nPc # "idle" =>
          LET parts == Split(nInput, ":")
              outs == Split(nOnce, ":")
          IN IF Len(parts) \in {2, 3}
             THEN /\ Len(outs) = Len(parts)
                  /\ \A i \in 1..Len(parts) :
                        IsDigitString(parts[i]) /\ Len(parts[i]) < ExponentialFrom
                            => IsPadded(outs[i], parts[i])
             ELSE nOnce = nInput

(***************************************************************************)
(* Properties of the heuristic parsing                                      *)
(***************************************************************************)
\* C15 as stated: in a response that is not JSON, every timestamped line
\* that comes after the summary line gives a chapter with the normalized
\* timestamp and the rest of the line as title (so "Resumen: Video about X"
\* followed by "02:30 Main topic" gives the chapter 02:30 / Main topic), and
\* the tldr is the text of the summary line.
C15_TimestampedLineGivesChapter ==
    pPc = "done" =>
        /\ \A i \in 1..Len(pExpected) :
              \E j \in 1..Len(pResult.chapters) : pResult.chapters[j] = pExpected[i]
        /\ pFoundTldr /\ pTldr # <<>> => pResult.tldr = pTldr

(***************************************************************************)
(* Properties of the provider fallback                                      *)
(***************************************************************************)
\* C14: the primary provider is called first, with the requested model; the
\* secondary one is called only after the primary call failed and only if
\* it is configured; the call fails with the all-providers-failed error
\* exactly when the primary failed and the secondary is not configured or
\* failed as well; otherwise the result is that of the first provider that
\* succeeded.
C14_ProviderFallback ==
    /\ gCalls # <<>> =>
          /\ gCalls[1].provider = "openai"
          /\ gCalls[1].model = gModel
    /\ \A i \in 1..Len(gCalls) :
          gCalls[i].provider = "groq" =>
              /\ i = 2
              /\ gCalls[1].failed
              /\ gGroqApiKey # ""
    /\ gPc \in {"returned", "thrown"} =>
          /\ gCalls # <<>>
          /\ gPc = "thrown" <=>
                /\ gCalls[1].failed
                /\ gGroqApiKey = "" \/ (Len(gCalls) = 2 /\ gCalls[2].failed)
          /\ gPc = "thrown" => gOutcome = AllProvidersFailed
          /\ gPc = "returned" =>
                /\ gOutcome.kind = "returned"
                /\ ~gCalls[Len(gCalls)].failed
                /\ gOutcome.provider = gCalls[Len(gCalls)].provider
                /\ \A i \in 1..(Len(gCalls) - 1) : gCalls[i].failed

\* The primary call failed, no secondary provider is configured, and the
\* call has ended with the all-providers-failed error after one provider call.
C14_Witness ==
    /\ gPc = "thrown"
    /\ gGroqApiKey = ""
    /\ Len(gCalls) = 1
    /\ gCalls[1].failed
    /\ gOutcome = AllProvidersFailed

(***************************************************************************)
(* Properties of the IdentifierResolver                                     *)
(***************************************************************************)
\* The first segment of a path: the text between its first "/" and the next.
FirstSegment(path) == IF path = <<>> THEN <<>> ELSE UpTo(Tail(path), {"/"})

\* The value of the parameter v as the query was written.
WrittenV(query) ==
    IF query = <<"?", "v", "=", "a", "b", "c">> \/ query = <<"?", "t", "=", "1", "&", "v", "=", "a", "b", "c">> THEN <<"a", "b", "c">> ELSE <<>>

\* youtube.com itself or one of its subdomains.
IsYoutubeHost(h) ==
    \/ h = HostCanonical
    \/ Len(h) > Len(HostCanonical) + 1
       /\ SubSeq(h, Len(h) - Len(HostCanonical), Len(h)) = <<".">> \o HostCanonical

\* The identifier the two recognized shapes carry; empty for every other url.
ExpectedId(parts) ==
    IF parts.scheme = <<>> THEN <<>>
    ELSE IF parts.host = HostShort THEN FirstSegment(parts.path)
    ELSE IF IsYoutubeHost(parts.host) THEN WrittenV(parts.query)
    ELSE <<>>

\* C17 as stated: the resolver gives an identifier only for the two
\* recognized shapes, the first path segment on the short host and the
\* value of v on the canonical host; for every other host, every malformed
\* url and every url without identifier the request is rejected.
C17_ResolverShapes ==
    uPc \in {"rejected", "accepted"} =>
        IF ExpectedId(uParts) = <<>>
        THEN uPc = "rejected"
        ELSE uPc = "accepted" /\ uVideoId = SomeId(ExpectedId(uParts))

(***************************************************************************)
(* Properties of the CaptionParser                                          *)
(***************************************************************************)
\* The text an element's character data stands for: every entity and every
\* character reference of the payload decoded once.
DecodedOnce(raw) ==
    IF raw = <<"&", "a", "m", "p", ";">> THEN <<"&">>
    ELSE IF raw = <<"&", "l", "t", ";">> THEN <<"<">>
    ELSE IF raw = <<"&", "a", "m", "p", ";", "l", "t", ";">> THEN <<"&", "l", "t", ";">>
    ELSE IF raw = <<"&", "#", "6", "5", ";">> \/ raw = <<"&", "#", "x", "4", "1", ";">> THEN <<"A">>
    ELSE IF raw = <<"&", "a", "m", "p", ";", "#", "6", "5", ";">> THEN <<"&", "#", "6", "5", ";">>
    ELSE raw

WellFormed(e) == e.start # <<>> /\ e.dur # <<>>

\* C18 as stated: from a payload of N <text start dur> elements the parser
\* gives exactly N segments in document order, each with end = start + dur
\* and the entity-decoded text of its element, and a full text that is the
\* segment texts joined by single spaces.
C18_CaptionRoundTrip ==
    (xPc = "parsed" /\ \A i \in 1..Len(xElements) : WellFormed(xElements[i])) =>
        /\ ~xResult.threw
        /\ Len(xResult.segments) = Len(xElements)
        /\ \A i \in 1..Len(xResult.segments) :
              LET seg == xResult.segments[i]
                  e == xElements[i]
              IN /\ seg.start = [nan |-> FALSE, value |-> ValueOf(e.start, 10)]
                 /\ seg.end.value = seg.start.value + ValueOf(e.dur, 10)
                 /\ seg.text = DecodedOnce(e.raw)
        /\ xResult.text = JoinTexts([i \in 1..Len(xElements) |-> DecodedOnce(xElements[i].raw)])

(***************************************************************************)
(* Properties of the entry point                                            *)
(***************************************************************************)
Invoked(op) == \E i \in 1..Len(qCalls) : qCalls[i] = op

\* C11 as stated: when an earlier request for the same (identifier,
\* language, model) succeeded and stored its response, a later request for
\* that triple that arrives before the TTL has elapsed and does not bypass
\* the cache is answered with the stored response marked cached, and invokes
\* neither transcript acquisition nor summarization.
C11_LaterRequestServedFromCache ==
    (qFreshAtArrival /\ ~qReq.nocache) =>
        /\ ~Invoked("transcript")
        /\ ~Invoked("summary")
        /\ qPc = "responded" =>
              /\ qResponse.cached
              /\ qResponse.kind = "success"
              /\ qResponse.data[1] = RouteKey

\* C12: on a request with the cache bypass set the cache is never read;
\* once the identifier is known the request goes on to the acquisition even
\* if an earlier request stored a response under its key that is still
\* fresh, and its response is not marked cached; when it succeeds the
\* summarization has run and the entry of the key holds the new response,
\* expiring one TTL from now.
C12_BypassSkipsCache ==
    qReq.nocache =>
        /\ ~qCacheRead
        /\ ~qResponse.cached
        /\ (qPc \in {"responded", "abandoned"} /\ qVideoId # <<>>) => Invoked("transcript")
        /\ (qPc = "responded" /\ qResponse.status = 200) =>
              /\ Invoked("summary")
              /\ RouteKey \in DOMAIN qCache
              /\ qCache[RouteKey] = [data |-> qResponse,
                                     expires |-> qNow + RouteTtlSeconds * MsPerSecond]

\* A bypassing request has succeeded although an earlier request had stored
\* a response under its key less than one TTL before; the entry of the key
\* is the new response.
C12_Witness ==
    /\ qPc = "responded"
    /\ qReq.nocache
    /\ qFreshAtArrival
    /\ qRequests = 1
    /\ qResponse.status = 200
    /\ Invoked("transcript") /\ Invoked("summary")
    /\ qCache[RouteKey].data = qResponse
    /\ qResponse.data = <<RouteKey, qNow>>

\* C19 as stated: a failure of the log sink never reaches the caller: on
\* every path the caller receives the response the handler had built.
C19_LogFailureNeverPropagates ==
    (qPc \in {"responded", "abandoned"} /\ qLogFailed) => qResponse = qPlanned

\* Whether the url or the shape of the identifier of the request is invalid.
InvalidRequest(req) ==
    \/ ~IsUrl(req.url)
    \/ IsFalsyId(ExtractVideoId(req.url))
    \/ ~IsValidVideoId(ExtractVideoId(req.url).value)

\* C20 as stated: a request whose url or identifier shape is invalid is
\* never retried and fails at once: nothing is re-attempted, no retry wait
\* occurs, no metadata, acquisition or provider call is made, and the
\* answer is a client (validation) error.
C20_ValidationNeverRetried ==
    (qPc # "idle" /\ InvalidRequest(qReq)) =>
        /\ qCalls = <<>>
        /\ qWaits = <<>>
        /\ qPc = "responded" =>
              qResponse.status = 400 /\ qResponse.kind \in {"validation", "invalidUrl"}

(***************************************************************************)
(* TranscriptResult: text against segments                                  *)
(***************************************************************************)
\* The text the code takes from a source as a whole rather than from its
\* segments: the content on the plain-text branch of parseTranscriptContent
\* (a JSON document that is no array of items ends there too), and the text
\* field of a JSON document or of an endpoint's answer where the code reads it.
WholeText(impl, src) ==
    CASE src.kind = "plain" -> src.text
      [] src.kind = "jsonObject" ->
            IF impl = "analytics.ts" /\ src.text # <<>> THEN src.text ELSE JsonSource
      [] src.kind = "endpoint" -> IF impl = "analytics.ts" THEN src.text ELSE <<>>
      [] OTHER -> <<>>

\* The TranscriptResults of the content at hand: the parser's and, once the
\* method has ended, the method's.
Produced ==
    {r \in {yParsed} : yPc # "idle" /\ ~r.threw}
    \cup {r \in {yOutput} : yPc = "ended" /\ ~r.threw}

\* C21 as stated: in every TranscriptResult a parser or a strategy produces,
\* text is non-empty if and only if a segment with non-empty text was parsed
\* or the source was plain text with non-empty content.
C21_TextIffSegmentOrPlainText ==
    \A result \in Produced :
        (result.text # <<>>) <=>
            \/ \E i \in 1..Len(result.segments) : result.segments[i].text # <<>>
            \/ WholeText(yImpl, ySource) # <<>>

\* C24 as stated: the parser fails, instead of returning an empty result, on
\* an XML payload in which no <text> element is matched and on plain-text
\* content that is empty after trimming.
C24_EmptyContentIsAFailure ==
    /\ (ySource.kind = "xml" /\ ySource.items = <<>>) => yParsed.threw
    /\ (ySource.kind = "plain" /\ Trim(ySource.text) = <<>>) => yParsed.threw

(***************************************************************************)
(* SummaryResult: chapters and tldr                                         *)
(***************************************************************************)
\* MM:SS or HH:MM:SS: two or three parts, each of at least two digits.
IsClockTime(t) ==
    LET parts == Split(t, ":") IN
    /\ Len(parts) \in {2, 3}
    /\ \A i \in 1..Len(parts) : IsDigitString(parts[i]) /\ Len(parts[i]) >= 2

\* The chapters are those of some items of the document, taken in document
\* order, each with its time normalized and its title trimmed.
InDocumentOrder(chapters, items) ==
    \E f \in [1..Len(chapters) -> 1..Len(items)] :
        /\ \A i, j \in 1..Len(chapters) : i < j => f[i] < f[j]
        /\ \A i \in 1..Len(chapters) :
              /\ items[f[i]].time.type = "string"
              /\ items[f[i]].title.type = "string"
              /\ chapters[i].time = NormalizeTimestamp(items[f[i]].time.str)
              /\ chapters[i].title = Trim(items[f[i]].title.str)

\* C22 as stated: every chapter of a returned SummaryResult, from strict
\* JSON parsing or from heuristic parsing, has a non-empty title and a time
\* of the form MM:SS or HH:MM:SS, and the chapters are in the order of the
\* provider output.
C22_ChaptersWellFormedInOrder ==
    pPc = "done" =>
        /\ \A i \in 1..Len(pResult.chapters) :
              /\ pResult.chapters[i].title # <<>>
              /\ IsClockTime(pResult.chapters[i].time)
        /\ pAccepted.kind = "object" => InDocumentOrder(pResult.chapters, pAccepted.chapters)
        /\ pAccepted.kind # "object" => pResult.chapters = pChapters

\* C25 as stated: parsing a response text always ends with a SummaryResult,
\* from strict parsing or, when that fails, from heuristic parsing; with no
\* tldr found the tldr is the placeholder; the returned tldr is never empty.
C25_ParsingNeverFailsTldrNeverEmpty ==
    /\ pPc \in {"idle", "lines", "done"}
    /\ pPc = "done" =>
          /\ pResult.tldr # <<>>
          /\ (pAccepted.kind # "object" /\ pTldr = <<>>) => pResult.tldr = NoSummary

(***************************************************************************)
(* Properties of the caption track selection                                *)
(***************************************************************************)
\* The priority class of a track for a list of preferred languages.
PriorityClass(track, langs) ==
    IF \E i \in 1..Len(langs) : track = langs[i] THEN "exact"
    ELSE IF \E i \in 1..Len(langs) :
                Len(track) > Len(langs[i]) + 1
                /\ SubSeq(track, 1, Len(langs[i])) = langs[i]
                /\ track[Len(langs[i]) + 1] = "-"
         THEN "family"
         ELSE "other"

\* The best class any of the tracks has.
BestClass(tracks, langs) ==
    LET classes == {PriorityClass(tracks[i], langs) : i \in 1..Len(tracks)} IN
    IF "exact" \in classes THEN "exact" ELSE IF "family" \in classes THEN "family" ELSE "other"

\* A selection that follows exact match, then family match, then the first track.
FollowsPriority(tracks, langs, picked) ==
    /\ picked \in 1..Len(tracks)
    /\ PriorityClass(tracks[picked], langs) = BestClass(tracks, langs)
    /\ BestClass(tracks, langs) = "other" => picked = 1

\* C23 as stated: the track is selected by exact language-code match, then
\* language-family prefix match, then first available track, and strategy 3
\* selects a track of the same priority class as strategy 1.
C23_SelectionPriorityShared ==
    /\ sPc # "idle" => FollowsPriority(sTracks, sPreferred, sStructured)
    /\ sPc = "direct" =>
          /\ sDirect \in 1..Len(sTracks)
          /\ PriorityClass(sTracks[sDirect], sPreferred)
                = PriorityClass(sTracks[sStructured], sPreferred)

(***************************************************************************)
(* SummarizationEngine: a malformed payload of the primary provider          *)
(***************************************************************************)
\* C26 as stated: a content of the primary provider that is not a JSON
\* object or lacks the tldr / chapters fields makes the engine call the
\* secondary provider, as a network error or an empty payload does.
C26_MalformedPayloadFallsBack ==
    (gPc \in {"returned", "thrown"} /\ gGroqApiKey # ""
     /\ gCalls[1].response \in MalformedContents) =>
        /\ Len(gCalls) = 2
        /\ gCalls[2].provider = "groq"

\* C26 amended: a network error, a non-2xx status, an answer without choices
\* and an empty content of the primary provider make the engine call the
\* secondary provider when one is configured; a non-empty content that is
\* not a JSON object or lacks the tldr / chapters fields does not: the call
\* returns the primary provider's content, parsed heuristically, and the
\* secondary provider is not called.
C26_MalformedContentParsedHeuristically ==
    gPc \in {"returned", "thrown"} =>
        /\ gCalls[1].response \in {"networkError", "httpError", "noChoices", "emptyContent"} =>
              /\ gCalls[1].failed
              /\ gGroqApiKey # "" => (Len(gCalls) = 2 /\ gCalls[2].provider = "groq")
        /\ gCalls[1].response \in MalformedContents =>
              /\ ~gCalls[1].failed
              /\ Len(gCalls) = 1
              /\ gPc = "returned"
              /\ gOutcome.provider = "openai"
              /\ gOutcome.parsed = "heuristic"

\* A secondary provider is configured, the primary provider answered with a
\* JSON document without the fields, and the call has returned that answer
\* parsed heuristically after a single provider call.
C26_Witness ==
    /\ gPc = "returned"
    /\ gGroqApiKey # ""
    /\ Len(gCalls) = 1
    /\ gCalls[1].response = "jsonWithoutFields"
    /\ gOutcome.provider = "openai"
    /\ gOutcome.parsed = "heuristic"

(***************************************************************************)
(* Entry point: provider calls, cache writes and transcript attempts         *)
(***************************************************************************)
\* How many of the first n provider calls of the request went to `provider`.
CallsBefore(provider, n) == Cardinality({i \in 1..(n - 1) : qProviders[i] = provider})

\* C27 as stated: within one request the secondary provider is called only
\* after the retries of the primary provider are exhausted, never between
\* two calls of the primary provider.
C27_FallbackAfterRetriesExhausted ==
    \A i \in 1..Len(qProviders) :
        qProviders[i] = "groq" =>
            /\ CallsBefore("openai", i) = SummaryOptions.maxRetries + 1
            /\ \A j \in (i + 1)..Len(qProviders) : qProviders[j] # "openai"

Finished == qPc \in {"responded", "abandoned"}

\* C29: a request that ends in a failure (invalid URL, no usable transcript,
\* which includes a text shorter than the minimum length, all providers
\* failed, any thrown error) has written nothing to the cache, only a
\* request that ends in success has; and a request whose transcript is
\* not usable ends in the no-transcript failure without ever invoking the
\* summarization engine.
C29_CacheWrittenOnlyOnSuccess ==
    /\ qCache # <<>> =>
          /\ qPlanned.kind = "success"
          /\ qPc \in {"log", "responded"}
          /\ DOMAIN qCache = {RouteKey}
          /\ qCache[RouteKey].data = qPlanned
    /\ (Finished /\ qResponse.kind # "success") => qCache = <<>>
    /\ (qTextLength >= 0 /\ qTextLength < MinTranscriptLength) =>
          /\ ~Invoked("summary")
          /\ qProviders = <<>>
          /\ qCache = <<>>
          /\ qPlanned = NoTranscriptResponse
          /\ Finished => qResponse = NoTranscriptResponse
    /\ \A k \in DOMAIN qPopulated : qPopulated[k].data.kind = "success"

\* A request has ended with the no-transcript answer on a text one character
\* short of the minimum: its cache is empty and no provider was called.
C29_Witness ==
    /\ qPc = "responded"
    /\ qTextLength = MinTranscriptLength - 1
    /\ qResponse = NoTranscriptResponse
    /\ qCache = <<>>
    /\ qProviders = <<>>

\* 11 characters of [a-zA-Z0-9_-]
HasIdentifierShape(id) ==
    /\ Len(id) = VideoIdLength
    /\ \A i \in 1..Len(id) : id[i] \in ValidIdChars

TranscriptCalls == Cardinality({i \in 1..Len(qCalls) : qCalls[i] = "transcript"})

\* C30: for an identifier of valid shape, a request calls getTranscript (one
\* run of the strategy sequence) at most once, exactly once when the call
\* has returned, and the retry wrapper around it never waits: exhaustion of
\* the strategies comes back as a result with empty text.
C30_TranscriptCalledOnce ==
    (qPc # "idle" /\ HasIdentifierShape(qVideoId)) =>
        /\ TranscriptCalls <= 1
        /\ qPc # "transcriptWait"
        /\ ~Invoked("summary") => qWaits = <<>>
        /\ qTextLength >= 0 => TranscriptCalls = 1
        /\ qError = "Error" => Invoked("summary")

\* A request for an identifier of valid shape, served by the service that
\* validates identifiers, has ended with the no-transcript answer on an
\* empty text after one call of getTranscript and no wait.
C30_Witness ==
    /\ qPc = "responded"
    /\ qImpl = "analytics.ts"
    /\ HasIdentifierShape(qVideoId)
    /\ qTextLength = 0
    /\ qResponse = NoTranscriptResponse
    /\ TranscriptCalls = 1
    /\ qWaits = <<>>

(***************************************************************************)
(* ResponseCache under concurrent requests                                  *)
(***************************************************************************)
\* C28: the steps of concurrent requests on the one map are its get, set,
\* delete, clear and cleanup calls in any order. In every such order get(k)
\* returns only the payload of the entry now stored under k, and only while
\* that entry is unexpired by the test of get; the entry under a key
\* changes only by a set of that key, so that payload is the last one set
\* for k; and an entry leaves the map only by delete(k), by clear, or by
\* get / cleanup finding that very entry expired, so the removal of an
\* expired entry never takes an entry written by a set since.
C28_NoCorruptionUnderInterleaving ==
    [][/\ \A k \in CacheKeys :
            (CacheGet(k) /\ cResult'.found) =>
                /\ k \in DOMAIN cache
                /\ cResult'.data = cache[k].data
                /\ ~IsExpired(now, cache[k])
                /\ cache' = cache
       /\ \A k \in DOMAIN cache \cap DOMAIN cache' :
            cache'[k] # cache[k] => \E v \in Payloads, ttl \in TtlSeconds : CacheSet(k, v, ttl)
       /\ \A k \in DOMAIN cache' \ DOMAIN cache :
            \E v \in Payloads, ttl \in TtlSeconds : CacheSet(k, v, ttl)
       /\ \A k \in DOMAIN cache \ DOMAIN cache' :
            \/ CacheDelete(k)
            \/ CacheClear
            \/ IsExpired(now, cache[k]) /\ (CacheGet(k) \/ CacheCleanup)]_vars

\* A get of a key has answered absent and, in the same millisecond, a set
\* has written that key where it found no entry; the new entry is in the
\* map, next to an expired entry under the other key.
C28_Witness ==
    /\ ~cResult.found
    /\ cGetAt = now
    /\ now > 0
    /\ cLastSet = [key |-> cGetKey, prior |-> "absent"]
    /\ cGetKey \in DOMAIN cache
    /\ ~IsExpired(now, cache[cGetKey])
    /\ \E k \in DOMAIN cache \ {cGetKey} : IsExpired(now, cache[k])

====
